---- MODULE Spec2Model ----
(***************************************************************************)
(* CDC voucher registry and redemption engine.                             *)
(*                                                                         *)
(* Models data_structure.py (HouseholdRegistry), the redeem route of       *)
(* merchant_portal.py and the registry instance of server.py.              *)
(*                                                                         *)
(* Text that the code formats or parses (household ids, voucher codes,     *)
(* transaction ids, national ids) is a sequence of one-character strings,  *)
(* so formatting and parsing are computed and not assumed.  Text that the  *)
(* code only compares or copies (barcodes, merchant ids, timestamps) is a  *)
(* TLA+ string.                                                            *)
(***************************************************************************)
EXTENDS Integers, Sequences, FiniteSets, TLC

VARIABLES
    households_csv,           \* data/households.csv: rows FIN -> Household_ID
    voucher_state_json,       \* data/voucher_state.json: Household_ID -> pool
    transactions_csv,         \* data/transactions.csv: the rows after the header
    transactions_csv_exists,  \* whether data/transactions.csv exists
    registry,                 \* the HouseholdRegistry objects, one per process
    redeem_req,               \* the redeem requests of merchant_portal.py
    register_req,             \* the register_household calls of server.py
    merchant_csv,             \* merchant.csv: whether it exists, and its rows
    merchant_req,             \* the last /register request of Merchant_reg.py
    codec,                    \* the last format_voucher_code / parse_voucher_code call
    history_req               \* the last /history or /download_csv request

vars == << households_csv, voucher_state_json, transactions_csv,
           transactions_csv_exists, registry, redeem_req, register_req,
           merchant_csv, merchant_req, codec, history_req >>

(***************************************************************************)
(* Python text primitives                                                  *)
(***************************************************************************)

Digits == << "0", "1", "2", "3", "4", "5", "6", "7", "8", "9" >>

IsDigit(c) == \E i \in 1..10 : Digits[i] = c

DigitVal(c) == (CHOOSE i \in 1..10 : Digits[i] = c) - 1

DigitChar(n) == Digits[n + 1]

\* str.isspace for the characters used here
IsSpace(c) == c = " "

\* str(n) for n >= 0
RECURSIVE Str(_)
Str(n) == IF n < 10 THEN << DigitChar(n) >>
          ELSE Append(Str(n \div 10), DigitChar(n % 10))

\* f"{n:0{width}d}" for n >= 0: zero-padded on the left, never truncated
Pad(n, width) ==
    LET s == Str(n)
    IN  IF Len(s) >= width THEN s
        ELSE [i \in 1..width |->
                 IF i <= width - Len(s) THEN "0" ELSE s[i - (width - Len(s))]]

\* str.lstrip / str.rstrip / str.strip
RECURSIVE lstrip(_)
lstrip(s) == IF s # << >> /\ IsSpace(Head(s)) THEN lstrip(Tail(s)) ELSE s

RECURSIVE rstrip(_)
rstrip(s) == IF s # << >> /\ IsSpace(s[Len(s)])
             THEN rstrip(SubSeq(s, 1, Len(s) - 1)) ELSE s

strip(s) == rstrip(lstrip(s))

\* str.upper on the letters used here
UpperChar(c) ==
    CASE c = "s" -> "S"
      [] c = "t" -> "T"
      [] c = "u" -> "U"
      [] c = "h" -> "H"
      [] c = "v" -> "V"
      [] c = "x" -> "X"
      [] OTHER   -> c

upper(s) == [i \in 1..Len(s) |-> UpperChar(s[i])]

\* str.lower on the letters used here
LowerChar(c) ==
    CASE c = "K" -> "k"
      [] c = "M" -> "m"
      [] c = "O" -> "o"
      [] OTHER   -> c

lower(s) == [i \in 1..Len(s) |-> LowerChar(s[i])]

\* s.startswith(prefix)
startswith(s, prefix) ==
    Len(s) >= Len(prefix) /\ SubSeq(s, 1, Len(prefix)) = prefix

\* the characters str.isdigit accepts: the decimal digits and the digit
\* characters that are not decimal, such as the superscript two, which
\* int() does not accept
IsDigitChar(c) == IsDigit(c) \/ c = "²"

\* s.isdigit(): non-empty and every character a digit character
isdigit(s) == s # << >> /\ \A i \in 1..Len(s) : IsDigitChar(s[i])

\* s.split(sep) for a one-character separator
RECURSIVE split(_, _)
split(s, sep) ==
    IF \A i \in 1..Len(s) : s[i] # sep THEN << s >>
    ELSE LET k == CHOOSE i \in 1..Len(s) :
                      s[i] = sep /\ \A j \in 1..(i - 1) : s[j] # sep
         IN  << SubSeq(s, 1, k - 1) >> \o split(SubSeq(s, k + 1, Len(s)), sep)

\* the value of a digit string that may hold '_' between digits
RECURSIVE DigitsValue(_, _)
DigitsValue(s, acc) ==
    IF s = << >> THEN acc
    ELSE IF Head(s) = "_" THEN DigitsValue(Tail(s), acc)
    ELSE DigitsValue(Tail(s), 10 * acc + DigitVal(Head(s)))

\* int(s): surrounding whitespace is dropped, one sign is allowed, single
\* underscores may separate digits; anything else raises ValueError.
IntOfBody(neg, body) ==
    IF /\ body # << >>
       /\ \A i \in 1..Len(body) : IsDigit(body[i]) \/ body[i] = "_"
       /\ IsDigit(body[1]) /\ IsDigit(body[Len(body)])
       /\ \A i \in 1..(Len(body) - 1) :
              ~(body[i] = "_" /\ body[i + 1] = "_")
    THEN [err |-> FALSE,
          val |-> IF neg THEN 0 - DigitsValue(body, 0) ELSE DigitsValue(body, 0)]
    ELSE [err |-> TRUE, val |-> 0]

IntOfStripped(t) ==
    IntOfBody(t # << >> /\ Head(t) = "-",
              IF t # << >> /\ Head(t) \in {"+", "-"} THEN Tail(t) ELSE t)

int(s) == IntOfStripped(strip(s))

(***************************************************************************)
(* HouseholdRegistry (data_structure.py)                                   *)
(***************************************************************************)

\* voucher_counts: denomination -> number of vouchers per household
voucher_counts == (2 :> 80) @@ (5 :> 32) @@ (10 :> 45)

normalize_fin(fin) == upper(strip(fin))

format_voucher_code(household_id, denom, idx) ==
    << "V" >> \o Pad(denom, 2) \o << "-" >> \o Pad(idx, 4) \o << "-" >> \o household_id

\* Fault variant of the parser: the marker test is missing
parse_voucher_code_no_marker(code) ==
    LET parts == split(strip(code), "-")
    IN  IF Len(parts) # 3
        THEN [err |-> TRUE, household_id |-> << >>, denom |-> 0, idx |-> 0]
        ELSE LET denom == int(Tail(parts[1]))
                 idx   == int(parts[2])
             IN  IF denom.err \/ idx.err
                 THEN [err |-> TRUE, household_id |-> << >>, denom |-> 0, idx |-> 0]
                 ELSE [err |-> FALSE, household_id |-> parts[3],
                       denom |-> denom.val, idx |-> idx.val]

\* the fields of a code of three parts
ParseFields(household_id, denom, idx) ==
    IF denom.err \/ idx.err
    THEN [err |-> TRUE, household_id |-> << >>, denom |-> 0, idx |-> 0]
    ELSE [err |-> FALSE, household_id |-> household_id,
          denom |-> denom.val, idx |-> idx.val]

\* the parts must be three and the first must begin with the marker
ParseParts(parts) ==
    IF Len(parts) # 3 \/ ~startswith(parts[1], << "V" >>)
    THEN [err |-> TRUE, household_id |-> << >>, denom |-> 0, idx |-> 0]
    ELSE ParseFields(parts[3], int(Tail(parts[1])), int(parts[2]))

parse_voucher_code(code) == ParseParts(split(strip(code), "-"))

\* the denomination a pool key str(denom) stands for
DenomOfKey(key) == CHOOSE denom \in DOMAIN voucher_counts : Str(denom) = key

\* the pool init_voucher_state builds: str(denom) -> [0] * count
NewPool ==
    [key \in {Str(denom) : denom \in DOMAIN voucher_counts} |->
        [i \in 1..voucher_counts[DenomOfKey(key)] |-> 0]]

\* self.household_voucher_state[household_id] = {...}
init_voucher_state(state, household_id) == (household_id :> NewPool) @@ state

\* self.household_voucher_state.update(data)
load_voucher_state(state, data) == data @@ state

\* self.fin_to_household[fin] = hid for every row with both fields non-empty
load_households(fin_to_household, rows) ==
    LET kept == {fin \in DOMAIN rows : strip(fin) # << >> /\ strip(rows[fin]) # << >>}
    IN  [fin \in {strip(f) : f \in kept} |->
            strip(rows[CHOOSE f \in kept : strip(f) = fin])] @@ fin_to_household

\* Fault variant of the boot scan: no missing pool is added
ensure_voucher_state_for_none(fin_to_household, state) == state

ensure_voucher_state_for_all(fin_to_household, state) ==
    LET missing == {fin_to_household[fin] : fin \in DOMAIN fin_to_household}
                       \ DOMAIN state
    IN  [hid \in missing |-> NewPool] @@ state

SetMax(S) == CHOOSE x \in S : \A y \in S : y <= x

\* f"H{n:04d}"
HouseholdId(n) == << "H" >> \o Pad(n, 4)

\* The identifier allocators scan the existing identifiers, keep those with
\* the prefix and an isdigit() suffix, and take int() of each suffix kept.
\* Scan(ids, prefix) is the outcome of that loop: raised when int() raises
\* ValueError on a suffix kept, otherwise max_num.
Suffix(id, prefix) == SubSeq(id, Len(prefix) + 1, Len(id))

Scan(ids, prefix) ==
    LET kept == {id \in ids : startswith(id, prefix) /\ isdigit(Suffix(id, prefix))}
    IN  IF \E id \in kept : int(Suffix(id, prefix)).err
        THEN [raised |-> TRUE, max_num |-> 0]
        ELSE [raised |-> FALSE,
              max_num |-> SetMax({int(Suffix(id, prefix)).val : id \in kept} \cup {0})]

\* Fault variant of the allocation: the largest number in use, not the next
get_next_household_id_max(fin_to_household) ==
    LET scan == Scan({fin_to_household[fin] : fin \in DOMAIN fin_to_household},
                     << "H" >>)
    IN  IF DOMAIN fin_to_household = {} THEN [raised |-> FALSE, id |-> HouseholdId(1)]
        ELSE [raised |-> scan.raised, id |-> HouseholdId(scan.max_num)]

\* the identifier returned, or raised when the call raises ValueError
get_next_household_id(fin_to_household) ==
    LET scan == Scan({fin_to_household[fin] : fin \in DOMAIN fin_to_household},
                     << "H" >>)
    IN  IF DOMAIN fin_to_household = {} THEN [raised |-> FALSE, id |-> HouseholdId(1)]
        ELSE [raised |-> scan.raised, id |-> HouseholdId(scan.max_num + 1)]

\* HouseholdRegistry.__init__ over a data directory: the object it builds
\* and the voucher_state.json it writes back
NewRegistry(rows, data) ==
    LET fin_to_household == load_households(<< >>, rows)
        state == ensure_voucher_state_for_all(fin_to_household,
                                              load_voucher_state(<< >>, data))
    IN  [fin_to_household |-> fin_to_household, household_voucher_state |-> state]

\* A call of the voucher-code codec: the triple formatted, the code, and
\* what parse_voucher_code made of the code (NotParsed before it is called).
NotParsed == [err |-> FALSE, household_id |-> << >>, denom |-> -1, idx |-> -1]

NoCodec == [household_id |-> << >>, denom |-> 0, idx |-> 0, code |-> << >>,
            parsed |-> NotParsed]

(***************************************************************************)
(* Inputs: activation records, merchants, clock                            *)
(***************************************************************************)

\* the code app_vouchers.py stores for voucher idx of denom of household n
V(denom, idx, n) == format_voucher_code(HouseholdId(n), denom, idx)

\* data/activations.json: barcode -> voucher codes, in file order.  The
\* records cover a single voucher, a three-voucher bundle that shares it,
\* a fresh voucher followed by a shared one, the last index of a pool and
\* the one after it, the same voucher under two spellings, a code with a
\* wrong marker, and an empty list; then a bundle with a good code, one past
\* the end of its pool and a malformed one, voucher number 0 after a good
\* code, a denomination that no pool has, and a household that never
\* registered; and last a bundle of two vouchers that no other record holds.
Activations == <<
    [barcode |-> "1000000000001", voucher_codes |-> << V(2, 1, 1) >>],
    [barcode |-> "1000000000002",
     voucher_codes |-> << V(2, 1, 1), V(5, 1, 1), V(10, 1, 1) >>],
    [barcode |-> "1000000000003", voucher_codes |-> << V(5, 2, 1), V(2, 1, 1) >>],
    [barcode |-> "1000000000004", voucher_codes |-> << V(2, 80, 1) >>],
    [barcode |-> "1000000000005", voucher_codes |-> << V(5, 3, 1), V(2, 81, 1) >>],
    [barcode |-> "1000000000006",
     voucher_codes |-> << V(10, 2, 1),
                          << "V", "1", "0", "-", "2", "-", "H", "0", "0", "0", "1" >> >>],
    [barcode |-> "1000000000007",
     voucher_codes |-> << V(5, 4, 1),
                          << "X", "0", "2", "-", "0", "0", "0", "1", "-",
                             "H", "0", "0", "0", "1" >> >>],
    [barcode |-> "1000000000008", voucher_codes |-> << V(2, 81, 1), V(2, 1, 1) >>],
    [barcode |-> "1000000000009", voucher_codes |-> << >>],
    [barcode |-> "1000000000010",
     voucher_codes |-> << V(2, 1, 1), V(2, 81, 1),
                          << "X", "0", "2", "-", "0", "0", "0", "1", "-",
                             "H", "0", "0", "0", "1" >> >>],
    [barcode |-> "1000000000011", voucher_codes |-> << V(5, 5, 1), V(2, 0, 1) >>],
    [barcode |-> "1000000000012", voucher_codes |-> << V(3, 1, 1) >>],
    [barcode |-> "1000000000013", voucher_codes |-> << V(2, 1, 9) >>],
    [barcode |-> "1000000000014", voucher_codes |-> << V(5, 6, 1), V(10, 3, 1) >>]
>>

\* barcodes a merchant may type: the activated ones and one that is not
\* (the bundle of the last record, which shares no voucher with the others,
\* is redeemed where a ledger of several redemptions is needed)
Barcodes ==
    ({Activations[i].barcode : i \in 1..Len(Activations)} \ {"1000000000014"})
        \cup {"9999999999999"}

\* session["merchant_id"]
Merchants == {"M001", "M002"}

\* datetime.now().strftime("%Y%m%d%H%M%S")
Clock == {"20260101093000"}

(***************************************************************************)
(* redeem (merchant_portal.py)                                             *)
(***************************************************************************)

\* registry.household_voucher_state.get(hid, {}).get(str(denom), [])
StateList(state, hid, key) ==
    IF hid \in DOMAIN state /\ key \in DOMAIN state[hid] THEN state[hid][key] ELSE << >>

\* Fault variant of the validation loop: the used test is missing
RECURSIVE ValidateFromNoUsedTest(_, _, _, _, _)
ValidateFromNoUsedTest(state, voucher_codes, k, valid, total_amount) ==
    IF k > Len(voucher_codes)
    THEN [outcome |-> "ok", valid |-> valid, total_amount |-> total_amount]
    ELSE LET p == parse_voucher_code(voucher_codes[k])
             array_idx == p.idx - 1
             current_state_list == StateList(state, p.household_id, Str(p.denom))
         IN  IF p.err
             THEN [outcome |-> "format", valid |-> valid, total_amount |-> total_amount]
             ELSE IF array_idx < 0 \/ array_idx >= Len(current_state_list)
             THEN [outcome |-> "range", valid |-> valid, total_amount |-> total_amount]
             ELSE ValidateFromNoUsedTest(state, voucher_codes, k + 1,
                               Append(valid, [code |-> voucher_codes[k],
                                              denom |-> p.denom,
                                              hid |-> p.household_id,
                                              idx |-> array_idx]),
                               total_amount + p.denom)

\* Fault variant of the validation loop: every code is decoded and bounds
\* checked before the used test decides
ValidateFromBoundsFirst(state, voucher_codes, k, valid, total_amount) ==
    IF ValidateFromNoUsedTest(state, voucher_codes, k, valid, total_amount).outcome # "ok"
    THEN ValidateFromNoUsedTest(state, voucher_codes, k, valid, total_amount)
    ELSE IF \E j \in k..Len(voucher_codes) :
                StateList(state, parse_voucher_code(voucher_codes[j]).household_id,
                          Str(parse_voucher_code(voucher_codes[j]).denom))
                    [parse_voucher_code(voucher_codes[j]).idx] = 1
    THEN [outcome |-> "used", valid |-> valid, total_amount |-> total_amount]
    ELSE ValidateFromNoUsedTest(state, voucher_codes, k, valid, total_amount)

\* Fault variant of the validation loop: the last position of a pool is
\* taken to be out of range
RECURSIVE ValidateFromShortPool(_, _, _, _, _)
ValidateFromShortPool(state, voucher_codes, k, valid, total_amount) ==
    IF k > Len(voucher_codes)
    THEN [outcome |-> "ok", valid |-> valid, total_amount |-> total_amount]
    ELSE LET p == parse_voucher_code(voucher_codes[k])
             array_idx == p.idx - 1
             current_state_list == StateList(state, p.household_id, Str(p.denom))
         IN  IF p.err
             THEN [outcome |-> "format", valid |-> valid, total_amount |-> total_amount]
             ELSE IF array_idx < 0 \/ array_idx >= Len(current_state_list) - 1
             THEN [outcome |-> "range", valid |-> valid, total_amount |-> total_amount]
             ELSE IF current_state_list[array_idx + 1] = 1
             THEN [outcome |-> "used", valid |-> valid, total_amount |-> total_amount]
             ELSE ValidateFromShortPool(state, voucher_codes, k + 1,
                               Append(valid, [code |-> voucher_codes[k],
                                              denom |-> p.denom,
                                              hid |-> p.household_id,
                                              idx |-> array_idx]),
                               total_amount + p.denom)

\* the validation loop from code number k on: it stops at the first code
\* that fails to parse, is out of range or is already used
RECURSIVE ValidateFrom(_, _, _, _, _)

\* one turn of the loop on code number k, p being what the code parsed to
ValidateCode(state, voucher_codes, k, valid, total_amount, p) ==
    IF p.err
    THEN [outcome |-> "format", valid |-> valid, total_amount |-> total_amount]
    ELSE IF p.idx - 1 < 0
            \/ p.idx - 1 >= Len(StateList(state, p.household_id, Str(p.denom)))
    THEN [outcome |-> "range", valid |-> valid, total_amount |-> total_amount]
    ELSE IF StateList(state, p.household_id, Str(p.denom))[p.idx] = 1
    THEN [outcome |-> "used", valid |-> valid, total_amount |-> total_amount]
    ELSE ValidateFrom(state, voucher_codes, k + 1,
                      Append(valid, [code |-> voucher_codes[k],
                                     denom |-> p.denom,
                                     hid |-> p.household_id,
                                     idx |-> p.idx - 1]),
                      total_amount + p.denom)

ValidateFrom(state, voucher_codes, k, valid, total_amount) ==
    IF k > Len(voucher_codes)
    THEN [outcome |-> "ok", valid |-> valid, total_amount |-> total_amount]
    ELSE ValidateCode(state, voucher_codes, k, valid, total_amount,
                      parse_voucher_code(voucher_codes[k]))

\* Fault variant of the flip: the 1-based voucher number used as list index
SetUsedOneBased(state, item) ==
    IF item.idx + 2 <= Len(state[item.hid][Str(item.denom)])
    THEN [state EXCEPT ![item.hid][Str(item.denom)][item.idx + 2] = 1]
    ELSE state

\* registry.household_voucher_state[hid][str(denom)][idx] = 1
SetUsed(state, item) ==
    [state EXCEPT ![item.hid][Str(item.denom)][item.idx + 1] = 1]

\* Fault variant of the update loop: only the last voucher is flipped
UpdateStateLastOnly(state, valid) ==
    IF valid = << >> THEN state ELSE SetUsed(state, valid[Len(valid)])

\* the update loop over valid_vouchers_details
RECURSIVE UpdateState(_, _)
UpdateState(state, valid) ==
    IF valid = << >> THEN state
    ELSE UpdateState(SetUsed(state, Head(valid)), Tail(valid))

\* f"TX{n:05d}"
TransactionId(n) == << "T", "X" >> \o Pad(n, 5)

\* Fault variant of the allocation: the ledger lines are counted
get_next_transaction_id_by_lines(rows) ==
    [raised |-> FALSE, id |-> TransactionId(Len(rows) + 1)]

\* the identifier returned, or raised when the call raises ValueError
get_next_transaction_id(rows) ==
    LET scan == Scan({rows[i].Transaction_ID : i \in 1..Len(rows)}, << "T", "X" >>)
    IN  [raised |-> scan.raised, id |-> TransactionId(scan.max_num + 1)]

\* f"${n}.00"
Dollars(n) == << "$" >> \o Str(n) \o << ".", "0", "0" >>

\* Fault variant of the ledger lines: the remark of an earlier line counts
\* from zero, str(i) for str(i + 1)
TransactionRowsFromZero(tx_id, merchant_id, tx_time, valid, total_amount) ==
    [i \in 1..Len(valid) |->
        [Transaction_ID        |-> tx_id,
         Household_ID          |-> valid[i].hid,
         Merchant_ID           |-> merchant_id,
         Transaction_Date_Time |-> tx_time,
         Voucher_Code          |-> valid[i].code,
         Denomination_Used     |-> Dollars(valid[i].denom),
         Amount_Redeemed       |-> Dollars(total_amount),
         Payment_Status        |-> "Completed",
         Remarks               |-> IF i = Len(valid)
                                   THEN << "Final denomination used" >>
                                   ELSE Str(i - 1)]]

\* the rows one redemption writes, in bundle order
TransactionRows(tx_id, merchant_id, tx_time, valid, total_amount) ==
    [i \in 1..Len(valid) |->
        [Transaction_ID        |-> tx_id,
         Household_ID          |-> valid[i].hid,
         Merchant_ID           |-> merchant_id,
         Transaction_Date_Time |-> tx_time,
         Voucher_Code          |-> valid[i].code,
         Denomination_Used     |-> Dollars(valid[i].denom),
         Amount_Redeemed       |-> Dollars(total_amount),
         Payment_Status        |-> "Completed",
         Remarks               |-> IF i = Len(valid)
                                   THEN << "Final denomination used" >>
                                   ELSE Str(i)]]

\* A redeem request: its place in the handler (pc), its inputs, its locals
\* and, once pc = "done", the page it returned (result).
IdleRedeem ==
    [pc |-> "idle", barcode |-> "", merchant_id |-> "", voucher_codes |-> << >>,
     valid_vouchers_details |-> << >>, total_amount |-> 0, tx_id |-> << >>,
     result |-> ""]

\* The steps of redeem act on w: the portal registry's household_voucher_state
\* (state), voucher_state.json (json), transactions.csv (rows, rows_exist)
\* and the request r.

\* Fault variant of the lookup: the empty-list test is missing
redeem_lookup_no_empty_test(w) ==
    LET hits == {i \in 1..Len(Activations) : Activations[i].barcode = w.r.barcode}
    IN  IF hits = {}
        THEN [w EXCEPT !.r.pc = "done", !.r.result = "Invalid Barcode"]
        ELSE LET found_record == Activations[CHOOSE i \in hits : \A j \in hits : i <= j]
             IN  [w EXCEPT !.r.pc = "reload",
                           !.r.voucher_codes = found_record.voucher_codes]

\* found_record is not None: its voucher_codes must not be empty
LookupFound(w, found_record) ==
    IF found_record.voucher_codes = << >>
    THEN [w EXCEPT !.r.pc = "done", !.r.result = "Empty Voucher"]
    ELSE [w EXCEPT !.r.pc = "reload",
                   !.r.voucher_codes = found_record.voucher_codes]

\* hits: the numbers of the records that hold the barcode
LookupHits(w, records, hits) ==
    IF hits = {}
    THEN [w EXCEPT !.r.pc = "done", !.r.result = "Invalid Barcode"]
    ELSE LookupFound(w, records[CHOOSE i \in hits : \A j \in hits : i <= j])

\* the loop over the activation records
LookupIn(w, records) ==
    LookupHits(w, records,
               {i \in 1..Len(records) : records[i].barcode = w.r.barcode})

\* the activation record of the barcode: the first one in file order
redeem_lookup(w) == LookupIn(w, Activations)

\* Fault variant of the reload: the mirror is used as it is
redeem_no_reload(w) == [w EXCEPT !.r.pc = "validate"]

\* voucher_state.json cut short by a write that failed after open(path, "w")
\* emptied the file: text that json.load rejects.  It stands here as a
\* table under a key that is no household identifier.
Corrupt == (<< >> :> << >>)

\* registry.load_voucher_state(): json.load raises on a file that does not
\* parse, and the call is outside the try block, so the request fails
redeem_reload(w) ==
    IF w.json = Corrupt
    THEN [w EXCEPT !.r.pc = "done", !.r.result = "Internal Server Error"]
    ELSE [w EXCEPT !.state = load_voucher_state(w.state, w.json),
                   !.r.pc = "validate"]

\* Fault variant of the failing save: the exception is swallowed and the
\* handler goes on to the ledger
redeem_save_fails_unnoticed(w, outcome) ==
    IF w.r.pc # "save" THEN w
    ELSE [w EXCEPT !.json = IF outcome = "open" THEN w.json ELSE Corrupt,
                   !.r.pc = "next_tx"]

\* registry.save_voucher_state() raising OSError: either open() fails and
\* the file is as it was, or the write fails after open() emptied the file.
\* The exception leaves the handler: the request fails, the flip stays in
\* the mirror.
redeem_save_fails(w, outcome) ==
    IF w.r.pc # "save" THEN w
    ELSE [w EXCEPT !.json = IF outcome = "open" THEN w.json ELSE Corrupt,
                   !.r.pc = "done", !.r.result = "Internal Server Error"]

\* Fault variant of the validation: a used voucher declines the bundle but
\* the fresh vouchers before it are marked used
redeem_validate_partial(w) ==
    LET v == ValidateFrom(w.state, w.r.voucher_codes, 1, << >>, 0)
    IN  CASE v.outcome = "format" ->
               [w EXCEPT !.r.pc = "done", !.r.result = "Data format error"]
          [] v.outcome = "range" ->
               [w EXCEPT !.r.pc = "done", !.r.result = "Voucher index out of range"]
          [] v.outcome = "used" ->
               [w EXCEPT !.state = UpdateState(w.state, v.valid),
                         !.json = UpdateState(w.state, v.valid),
                         !.r.pc = "done", !.r.result = "Declined"]
          [] OTHER ->
               [w EXCEPT !.r.pc = "update",
                         !.r.valid_vouchers_details = v.valid,
                         !.r.total_amount = v.total_amount]

\* state with an empty pool mapping for every household that a code names
\* and state lacks
WithDefaults(state, voucher_codes) ==
    LET named == {parse_voucher_code(voucher_codes[k]).household_id :
                     k \in {j \in 1..Len(voucher_codes) :
                               ~parse_voucher_code(voucher_codes[j]).err}}
    IN  [hid \in DOMAIN state \cup named |->
            IF hid \in DOMAIN state THEN state[hid] ELSE << >>]

\* Fault variant of the validation: the pool of a household is read with
\* setdefault, which inserts it when it is missing
redeem_validate_setdefault(w) ==
    LET v == ValidateFrom(w.state, w.r.voucher_codes, 1, << >>, 0)
    IN  CASE v.outcome = "format" ->
               [w EXCEPT !.r.pc = "done", !.r.result = "Data format error"]
          [] v.outcome = "range" ->
               [w EXCEPT !.state = WithDefaults(w.state, w.r.voucher_codes),
                         !.r.pc = "done", !.r.result = "Voucher index out of range"]
          [] v.outcome = "used" ->
               [w EXCEPT !.r.pc = "done", !.r.result = "Declined"]
          [] OTHER ->
               [w EXCEPT !.r.pc = "update",
                         !.r.valid_vouchers_details = v.valid,
                         !.r.total_amount = v.total_amount]

\* the try block and the already_used test
redeem_validate(w) ==
    LET v == ValidateFrom(w.state, w.r.voucher_codes, 1, << >>, 0)
    IN  CASE v.outcome = "format" ->
               [w EXCEPT !.r.pc = "done", !.r.result = "Data format error"]
          [] v.outcome = "range" ->
               [w EXCEPT !.r.pc = "done", !.r.result = "Voucher index out of range"]
          [] v.outcome = "used" ->
               [w EXCEPT !.r.pc = "done", !.r.result = "Declined"]
          [] OTHER ->
               [w EXCEPT !.r.pc = "update",
                         !.r.valid_vouchers_details = v.valid,
                         !.r.total_amount = v.total_amount]

\* "Update State"
redeem_update_state(w) ==
    [w EXCEPT !.state = UpdateState(w.state, w.r.valid_vouchers_details),
              !.r.pc = "save"]

\* registry.save_voucher_state()
redeem_save(w) == [w EXCEPT !.json = w.state, !.r.pc = "next_tx"]

\* ensure_transaction_csv_exists(); tx_id = get_next_transaction_id()
\* a ValueError raised there leaves the handler: the request fails
redeem_next_tx(w) ==
    LET tx_id == get_next_transaction_id(w.rows)
    IN  IF tx_id.raised
        THEN [w EXCEPT !.rows_exist = TRUE,
                       !.r.pc = "done", !.r.result = "Internal Server Error"]
        ELSE [w EXCEPT !.rows_exist = TRUE, !.r.tx_id = tx_id.id, !.r.pc = "write"]

\* the rows appended to transactions.csv and the success page
redeem_write_transaction(w, tx_time) ==
    [w EXCEPT !.rows = w.rows \o TransactionRows(w.r.tx_id, w.r.merchant_id, tx_time,
                                                 w.r.valid_vouchers_details,
                                                 w.r.total_amount),
              !.r.pc = "done",
              !.r.result = "Redemption Successful!"]

\* one step of the handler
RedeemStep(w, tx_time) ==
    CASE w.r.pc = "lookup"   -> redeem_lookup(w)
      [] w.r.pc = "reload"   -> redeem_reload(w)
      [] w.r.pc = "validate" -> redeem_validate(w)
      [] w.r.pc = "update"   -> redeem_update_state(w)
      [] w.r.pc = "save"     -> redeem_save(w)
      [] w.r.pc = "next_tx"  -> redeem_next_tx(w)
      [] w.r.pc = "write"    -> redeem_write_transaction(w, tx_time)
      [] OTHER               -> w

\* the handler from its current step to its return
RECURSIVE redeem(_, _)
redeem(w, tx_time) ==
    IF w.r.pc = "done" THEN w ELSE redeem(RedeemStep(w, tx_time), tx_time)

\* the handler from its current step up to the save of the pool table, or
\* to its return when it returns before
RECURSIVE redeem_to_save(_, _)
redeem_to_save(w, tx_time) ==
    IF w.r.pc \in {"done", "save"} THEN w
    ELSE redeem_to_save(RedeemStep(w, tx_time), tx_time)

\* a request entering the handler
NewRedeem(barcode, merchant_id) ==
    [IdleRedeem EXCEPT !.pc = "lookup", !.barcode = barcode, !.merchant_id = merchant_id]

(***************************************************************************)
(* history and download_csv (merchant_portal.py)                           *)
(***************************************************************************)

\* A /history or /download_csv request: the route, the merchant of the
\* session and the rows the page or the file shows, in order.
IdleHistory == [route |-> "", merchant_id |-> "", transactions |-> << >>]

\* Fault variant of the reading loop: the newest row first
RECURSIVE HistoryFromNewestFirst(_, _, _, _)
HistoryFromNewestFirst(rows, k, merchant_id, transactions) ==
    IF k > Len(rows) THEN transactions
    ELSE LET rest == HistoryFromNewestFirst(rows, k + 1, merchant_id, transactions)
         IN  IF rows[k].Merchant_ID = merchant_id THEN Append(rest, rows[k]) ELSE rest

\* for row in reader: if row.get("Merchant_ID") == merchant_id: append
RECURSIVE HistoryFrom(_, _, _, _)
HistoryFrom(rows, k, merchant_id, transactions) ==
    IF k > Len(rows) THEN transactions
    ELSE HistoryFrom(rows, k + 1, merchant_id,
                     IF rows[k].Merchant_ID = merchant_id
                     THEN Append(transactions, rows[k])
                     ELSE transactions)

\* transactions of history(): empty when transactions.csv does not exist
history(rows, rows_exist, merchant_id) ==
    IF rows_exist THEN HistoryFrom(rows, 1, merchant_id, << >>) ELSE << >>

\* fieldnames of download_csv
fieldnames ==
    {"Transaction_ID", "Household_ID", "Merchant_ID", "Transaction_Date_Time",
     "Voucher_Code", "Denomination_Used", "Amount_Redeemed", "Payment_Status",
     "Remarks"}

\* clean_row = {k: row.get(k, "") for k in fieldnames}
clean_row(row) == [k \in fieldnames |-> IF k \in DOMAIN row THEN row[k] ELSE ""]

\* the rows download_csv writes after the header
download_csv(rows, rows_exist, merchant_id) ==
    [i \in 1..Len(history(rows, rows_exist, merchant_id)) |->
        clean_row(history(rows, rows_exist, merchant_id)[i])]

(***************************************************************************)
(* register_household (data_structure.py)                                  *)
(***************************************************************************)

\* A register_household call: its place in the method (pc), its argument,
\* its locals and, once pc = "done", the tuple it returned:
\* (fin, hid, already_registered, error).
IdleRegister ==
    [pc |-> "idle", fin_raw |-> << >>, fin |-> << >>, hid |-> << >>,
     already_registered |-> FALSE, error |-> ""]

\* The steps of register_household act on w: the registry object (reg),
\* households.csv (rows), voucher_state.json (json) and the call c.

\* Fault variant of the first step: the membership test is missing
register_check_always_new(w) ==
    LET fin == normalize_fin(w.c.fin_raw)
    IN  IF fin = << >>
        THEN [w EXCEPT !.c.pc = "done", !.c.error = "FIN is required."]
        ELSE [w EXCEPT !.c.pc = "next_id", !.c.fin = fin]

\* Fault variant of the first step: the empty test is missing
register_check_no_empty_test(w) ==
    IF normalize_fin(w.c.fin_raw) \in DOMAIN w.reg.fin_to_household
    THEN [w EXCEPT !.c.pc = "existing", !.c.fin = normalize_fin(w.c.fin_raw)]
    ELSE [w EXCEPT !.c.pc = "next_id", !.c.fin = normalize_fin(w.c.fin_raw)]

\* fin = normalize_fin(fin_raw); the empty test and the membership test
register_check(w) ==
    LET fin == normalize_fin(w.c.fin_raw)
    IN  IF fin = << >>
        THEN [w EXCEPT !.c.pc = "done", !.c.error = "FIN is required."]
        ELSE IF fin \in DOMAIN w.reg.fin_to_household
        THEN [w EXCEPT !.c.pc = "existing", !.c.fin = fin]
        ELSE [w EXCEPT !.c.pc = "next_id", !.c.fin = fin]

\* the "Existing" branch: the mapped id, and the pool repaired if missing
register_existing(w) ==
    LET hid == w.reg.fin_to_household[w.c.fin]
    IN  IF hid \notin DOMAIN w.reg.household_voucher_state
        THEN [w EXCEPT !.reg.household_voucher_state =
                           init_voucher_state(w.reg.household_voucher_state, hid),
                       !.c.hid = hid, !.c.already_registered = TRUE,
                       !.c.pc = "repair_save"]
        ELSE [w EXCEPT !.c.hid = hid, !.c.already_registered = TRUE, !.c.pc = "done"]

\* self.save_voucher_state() of the "Existing" branch
register_repair_save(w) ==
    [w EXCEPT !.json = w.reg.household_voucher_state, !.c.pc = "done"]

\* hid = self.get_next_household_id(); a ValueError raised there leaves
\* register_household before anything is changed
register_next_id(w) ==
    LET hid == get_next_household_id(w.reg.fin_to_household)
    IN  IF hid.raised
        THEN [w EXCEPT !.c.pc = "done", !.c.error = "ValueError"]
        ELSE [w EXCEPT !.c.hid = hid.id, !.c.pc = "insert"]

\* self.fin_to_household[fin] = hid
register_insert(w) ==
    [w EXCEPT !.reg.fin_to_household =
                  (w.c.fin :> w.c.hid) @@ w.reg.fin_to_household,
              !.c.pc = "init"]

\* self.init_voucher_state(hid)
register_init(w) ==
    [w EXCEPT !.reg.household_voucher_state =
                  init_voucher_state(w.reg.household_voucher_state, w.c.hid),
              !.c.pc = "save_households"]

\* self.save_households()
register_save_households(w) ==
    [w EXCEPT !.rows = w.reg.fin_to_household, !.c.pc = "save_voucher_state"]

\* self.save_voucher_state()
register_save_voucher_state(w) ==
    [w EXCEPT !.json = w.reg.household_voucher_state, !.c.pc = "done"]

\* one step of the method
RegisterStep(w) ==
    CASE w.c.pc = "check"              -> register_check(w)
      [] w.c.pc = "existing"           -> register_existing(w)
      [] w.c.pc = "repair_save"        -> register_repair_save(w)
      [] w.c.pc = "next_id"            -> register_next_id(w)
      [] w.c.pc = "insert"             -> register_insert(w)
      [] w.c.pc = "init"               -> register_init(w)
      [] w.c.pc = "save_households"    -> register_save_households(w)
      [] w.c.pc = "save_voucher_state" -> register_save_voucher_state(w)
      [] OTHER                         -> w

\* the method from its current step to its return
RECURSIVE register_household(_)
register_household(w) ==
    IF w.c.pc = "done" THEN w ELSE register_household(RegisterStep(w))

\* a call entering the method
NewRegister(fin_raw) == [IdleRegister EXCEPT !.pc = "check", !.fin_raw = fin_raw]

\* what users type into the ID field: three identifiers, two of them in
\* two spellings, the empty text and blank text
FinInputs ==
    { << "s", "1" >>, << " ", "S", "1", " " >>, << "T", "2" >>, << "t", "2", " " >>,
      << "u", "3" >>, << >>, << " " >> }

(***************************************************************************)
(* Merchant registration (Merchant_reg.py)                                 *)
(***************************************************************************)

\* ALLOWED_BANKS
ALLOWED_BANKS ==
    { << "D", "B", "S", " ", "B", "a", "n", "k", " ", "L", "t", "d" >>,
      << "O", "C", "B", "C", " ", "B", "a", "n", "k" >>,
      << "U", "O", "B", " ", "B", "a", "n", "k" >>,
      << "M", "a", "y", "b", "a", "n", "k", " ",
         "S", "i", "n", "g", "a", "p", "o", "r", "e" >>,
      << "S", "t", "a", "n", "d", "a", "r", "d", " ",
         "C", "h", "a", "r", "t", "e", "r", "e", "d", " ", "B", "a", "n", "k" >>,
      << "H", "S", "B", "C", " ", "S", "i", "n", "g", "a", "p", "o", "r", "e" >>,
      << "P", "O", "S", "B", " ", "B", "a", "n", "k" >>,
      << "C", "i", "t", "i", "b", "a", "n", "k", " ",
         "S", "i", "n", "g", "a", "p", "o", "r", "e" >>,
      << "R", "H", "B", " ", "B", "a", "n", "k", " ",
         "B", "e", "r", "h", "a", "d" >>,
      << "B", "a", "n", "k", " ", "o", "f", " ", "C", "h", "i", "n", "a", " ",
         "S", "i", "n", "g", "a", "p", "o", "r", "e" >> }

\* the first row whose name (case-folded) or account number equals the
\* submitted one: its Merchant_ID, stripped; << >> stands for None
find_existing_merchant_id(csv, merchant_name, account_number) ==
    LET name_key == lower(strip(merchant_name))
        acct_key == strip(account_number)
        hits == {i \in 1..Len(csv.rows) :
                    \/ lower(strip(csv.rows[i].Merchant_Name)) = name_key
                    \/ strip(csv.rows[i].Account_Number) = acct_key}
    IN  IF ~csv.exists \/ hits = {} THEN << >>
        ELSE strip(csv.rows[CHOOSE i \in hits : \A j \in hits : i <= j].Merchant_ID)

\* f"M{n:03d}"
MerchantId(n) == << "M" >> \o Pad(n, 3)

\* the identifier returned, or raised when the call raises ValueError
get_next_merchant_id(csv) ==
    LET scan == Scan({strip(csv.rows[i].Merchant_ID) : i \in 1..Len(csv.rows)},
                     << "M" >>)
    IN  [raised |-> scan.raised, id |-> MerchantId(scan.max_num + 1)]

\* A /register request: the form it posted and, once answered, the page
\* (response) and the Merchant_ID shown on it.
IdleMerchant == [form |-> << >>, response |-> "", merchant_id |-> << >>]

\* the /register handler: the file and the answered request it leaves
register(csv, form) ==
    LET merchant_name  == strip(form.Merchant_Name)
        bank_name      == strip(form.Bank_Name)
        account_number == strip(form.Account_Number)
        account_holder == strip(form.Account_Holder_Name)
        existing_id    == find_existing_merchant_id(csv, merchant_name, account_number)
        merchant_id    == get_next_merchant_id(csv)
        answer(response, id) ==
            [form |-> form, response |-> response, merchant_id |-> id]
    IN  IF bank_name \notin ALLOWED_BANKS
        THEN [csv |-> csv, req |-> answer("Invalid Bank Name.", << >>)]
        ELSE IF ~(isdigit(account_number) /\ Len(account_number) = 9)
        THEN [csv |-> csv, req |-> answer("Invalid Account Number.", << >>)]
        ELSE IF merchant_name = << >> \/ account_holder = << >>
        THEN [csv |-> csv, req |-> answer("redirect", << >>)]
        ELSE IF existing_id # << >>
        THEN [csv |-> csv, req |-> answer("Already Registered", existing_id)]
        ELSE IF merchant_id.raised
        THEN [csv |-> [csv EXCEPT !.exists = TRUE],
              req |-> answer("Internal Server Error", << >>)]
        ELSE [csv |-> [exists |-> TRUE,
                       rows |-> Append(csv.rows,
                                   [Merchant_ID         |-> merchant_id.id,
                                    Merchant_Name       |-> merchant_name,
                                    Bank_Name           |-> bank_name,
                                    Account_Number      |-> account_number,
                                    Account_Holder_Name |-> account_holder])],
              req |-> answer("Registered", merchant_id.id)]

\* what merchants post: two shops, one of them in two spellings; a bank
\* that is allowed and one that is not; two account numbers of nine decimal
\* digits, one of five, and one of nine superscript twos; a holder and none
MerchantForms ==
    [Merchant_Name       : { << "K", "o", "p", "i" >>, << "k", "o", "p", "i", " " >>,
                             << "M", "e", "e" >> },
     Bank_Name           : { << "U", "O", "B", " ", "B", "a", "n", "k" >>,
                             << "U", "O", "B" >> },
     Account_Number      : { Pad(111111111, 9), Pad(222222222, 9), Pad(12345, 5),
                             << "²", "²", "²", "²", "²", "²", "²", "²", "²" >> },
     Account_Holder_Name : { << "T", "a", "n" >>, << >> }]

(***************************************************************************)
(* The processes: merchant_portal.py and server.py over one data directory *)
(***************************************************************************)

\* request threads of the portal (Flask serves each request on a thread)
\* and event-handler threads of the registration page
Threads == {"t1", "t2"}

\* under Spec a redeem request is taken only while the ledger has fewer rows
MaxLedger == 2

\* the state redeem acts on, for request r
RedeemWorld(r) ==
    [state      |-> registry.portal.household_voucher_state,
     json       |-> voucher_state_json,
     rows       |-> transactions_csv,
     rows_exist |-> transactions_csv_exists,
     r          |-> r]

RedeemCommit(t, w) ==
    /\ registry' = [registry EXCEPT !.portal.household_voucher_state = w.state]
    /\ voucher_state_json' = w.json
    /\ transactions_csv' = w.rows
    /\ transactions_csv_exists' = w.rows_exist
    /\ redeem_req' = [redeem_req EXCEPT ![t] = w.r]
    /\ UNCHANGED << households_csv, register_req, merchant_csv, merchant_req, codec, history_req >>

\* the state register_household acts on, for call c on server.py's registry
RegisterWorld(c) ==
    [reg  |-> registry.server,
     rows |-> households_csv,
     json |-> voucher_state_json,
     c    |-> c]

RegisterCommit(t, w) ==
    /\ registry' = [registry EXCEPT !.server = w.reg]
    /\ households_csv' = w.rows
    /\ voucher_state_json' = w.json
    /\ register_req' = [register_req EXCEPT ![t] = w.c]
    /\ UNCHANGED << transactions_csv, transactions_csv_exists, redeem_req,
                    merchant_csv, merchant_req, codec, history_req >>

NoCallInFlight ==
    /\ \A t \in Threads : redeem_req[t].pc \in {"idle", "done"}
    /\ \A t \in Threads : register_req[t].pc \in {"idle", "done"}

\* a complete redeem request
Redeem(t, barcode, merchant_id, tx_time) ==
    /\ NoCallInFlight
    /\ RedeemCommit(t, redeem(RedeemWorld(NewRedeem(barcode, merchant_id)), tx_time))

\* a complete register_household call
RegisterHousehold(t, fin_raw) ==
    /\ NoCallInFlight
    /\ RegisterCommit(t, register_household(RegisterWorld(NewRegister(fin_raw))))

\* a complete /register request of Merchant_reg.py
RegisterMerchant(form) ==
    /\ NoCallInFlight
    /\ merchant_csv' = register(merchant_csv, form).csv
    /\ merchant_req' = register(merchant_csv, form).req
    /\ UNCHANGED << households_csv, voucher_state_json, transactions_csv,
                    transactions_csv_exists, registry, redeem_req, register_req,
                    codec, history_req >>

\* An empty data directory, and both processes started on it.
Init ==
    /\ households_csv = << >>
    /\ voucher_state_json = << >>
    /\ transactions_csv = << >>
    /\ transactions_csv_exists = FALSE
    /\ registry = [portal |-> NewRegistry(<< >>, << >>),
                   server |-> NewRegistry(<< >>, << >>)]
    /\ redeem_req = [t \in Threads |-> IdleRedeem]
    /\ register_req = [t \in Threads |-> IdleRegister]
    /\ merchant_csv = [exists |-> FALSE, rows |-> << >>]
    /\ merchant_req = IdleMerchant
    /\ codec = NoCodec
    /\ history_req = IdleHistory

\* Complete calls in any order: registrations through server.py's registry
\* and redemptions through the portal's, from the session of one merchant.
Next ==
    \/ /\ Len(transactions_csv) < MaxLedger
       /\ \E barcode \in Barcodes, tx_time \in Clock :
              Redeem("t1", barcode, "M001", tx_time)
    \/ \E fin_raw \in FinInputs : RegisterHousehold("t1", fin_raw)

Spec == Init /\ [][Next]_vars

\* The data directory after the households of two national identifiers have
\* registered through server.py, and the portal started on it: all pools
\* unused, no ledger.
RegisteredWorld ==
    LET w0 == [reg |-> NewRegistry(<< >>, << >>), rows |-> << >>, json |-> << >>,
               c |-> NewRegister(<< "S", "1" >>)]
        w1 == register_household(w0)
    IN  register_household([w1 EXCEPT !.c = NewRegister(<< "T", "2" >>)])

InitRedeem ==
    /\ households_csv = RegisteredWorld.rows
    /\ voucher_state_json = RegisteredWorld.json
    /\ transactions_csv = << >>
    /\ transactions_csv_exists = FALSE
    /\ registry = [portal |-> NewRegistry(RegisteredWorld.rows, RegisteredWorld.json),
                   server |-> RegisteredWorld.reg]
    /\ redeem_req = [t \in Threads |-> IdleRedeem]
    /\ register_req = [t \in Threads |-> IdleRegister]
    /\ merchant_csv = [exists |-> FALSE, rows |-> << >>]
    /\ merchant_req = IdleMerchant
    /\ codec = NoCodec
    /\ history_req = IdleHistory

\* Complete redeem requests only, one after another.
NextRedeem ==
    \E barcode \in Barcodes, merchant_id \in Merchants, tx_time \in Clock :
        Redeem("t1", barcode, merchant_id, tx_time)

SpecRedeem == InitRedeem /\ [][NextRedeem]_vars

(***************************************************************************)
(* Interleaved requests: no lock guards redeem or register_household       *)
(***************************************************************************)

\* the merchant logged in on each portal session
SessionMerchant == [t \in Threads |-> IF t = "t1" THEN "M001" ELSE "M002"]

\* a request arrives on an idle thread
RedeemBegin(t, barcode) ==
    /\ redeem_req[t].pc = "idle"
    /\ redeem_req' = [redeem_req EXCEPT ![t] = NewRedeem(barcode, SessionMerchant[t])]
    /\ UNCHANGED << households_csv, voucher_state_json, transactions_csv,
                    transactions_csv_exists, registry, register_req,
                    merchant_csv, merchant_req, codec, history_req >>

RedeemLookup(t) ==
    /\ redeem_req[t].pc = "lookup"
    /\ RedeemCommit(t, redeem_lookup(RedeemWorld(redeem_req[t])))

RedeemReload(t) ==
    /\ redeem_req[t].pc = "reload"
    /\ RedeemCommit(t, redeem_reload(RedeemWorld(redeem_req[t])))

RedeemValidate(t) ==
    /\ redeem_req[t].pc = "validate"
    /\ RedeemCommit(t, redeem_validate(RedeemWorld(redeem_req[t])))

RedeemUpdateState(t) ==
    /\ redeem_req[t].pc = "update"
    /\ RedeemCommit(t, redeem_update_state(RedeemWorld(redeem_req[t])))

RedeemSave(t) ==
    /\ redeem_req[t].pc = "save"
    /\ RedeemCommit(t, redeem_save(RedeemWorld(redeem_req[t])))

RedeemNextTx(t) ==
    /\ redeem_req[t].pc = "next_tx"
    /\ RedeemCommit(t, redeem_next_tx(RedeemWorld(redeem_req[t])))

RedeemWrite(t, tx_time) ==
    /\ redeem_req[t].pc = "write"
    /\ RedeemCommit(t, redeem_write_transaction(RedeemWorld(redeem_req[t]), tx_time))

\* Two redeem requests, one per thread, whose steps interleave.
NextConc ==
    \E t \in Threads :
        \/ \E barcode \in Barcodes : RedeemBegin(t, barcode)
        \/ RedeemLookup(t)
        \/ RedeemReload(t)
        \/ RedeemValidate(t)
        \/ RedeemUpdateState(t)
        \/ RedeemSave(t)
        \/ RedeemNextTx(t)
        \/ \E tx_time \in Clock : RedeemWrite(t, tx_time)

SpecConc == InitRedeem /\ [][NextConc]_vars

\* a call arrives on an idle handler thread
RegisterBegin(t, fin_raw) ==
    /\ register_req[t].pc = "idle"
    /\ register_req' = [register_req EXCEPT ![t] = NewRegister(fin_raw)]
    /\ UNCHANGED << households_csv, voucher_state_json, transactions_csv,
                    transactions_csv_exists, registry, redeem_req,
                    merchant_csv, merchant_req, codec, history_req >>

RegisterCheck(t) ==
    /\ register_req[t].pc = "check"
    /\ RegisterCommit(t, register_check(RegisterWorld(register_req[t])))

RegisterExisting(t) ==
    /\ register_req[t].pc = "existing"
    /\ RegisterCommit(t, register_existing(RegisterWorld(register_req[t])))

RegisterRepairSave(t) ==
    /\ register_req[t].pc = "repair_save"
    /\ RegisterCommit(t, register_repair_save(RegisterWorld(register_req[t])))

RegisterNextId(t) ==
    /\ register_req[t].pc = "next_id"
    /\ RegisterCommit(t, register_next_id(RegisterWorld(register_req[t])))

RegisterInsert(t) ==
    /\ register_req[t].pc = "insert"
    /\ RegisterCommit(t, register_insert(RegisterWorld(register_req[t])))

RegisterInit(t) ==
    /\ register_req[t].pc = "init"
    /\ RegisterCommit(t, register_init(RegisterWorld(register_req[t])))

RegisterSaveHouseholds(t) ==
    /\ register_req[t].pc = "save_households"
    /\ RegisterCommit(t, register_save_households(RegisterWorld(register_req[t])))

RegisterSaveVoucherState(t) ==
    /\ register_req[t].pc = "save_voucher_state"
    /\ RegisterCommit(t, register_save_voucher_state(RegisterWorld(register_req[t])))

\* Two register_household calls, one per thread, whose steps interleave.
NextRegisterConc ==
    \E t \in Threads :
        \/ \E fin_raw \in FinInputs : RegisterBegin(t, fin_raw)
        \/ RegisterCheck(t)
        \/ RegisterExisting(t)
        \/ RegisterRepairSave(t)
        \/ RegisterNextId(t)
        \/ RegisterInsert(t)
        \/ RegisterInit(t)
        \/ RegisterSaveHouseholds(t)
        \/ RegisterSaveVoucherState(t)

SpecRegisterConc == Init /\ [][NextRegisterConc]_vars

(***************************************************************************)
(* Vocabulary of the properties                                            *)
(***************************************************************************)

\* the last redeem request and the bundle its barcode is bound to
LastRedeem == redeem_req["t1"]

Bundle(barcode) ==
    LET hits == {i \in 1..Len(Activations) : Activations[i].barcode = barcode}
    IN  IF hits = {} THEN << >>
        ELSE Activations[CHOOSE i \in hits : \A j \in hits : i <= j].voucher_codes

Rejections == {"Declined", "Data format error", "Voucher index out of range"}

\* every voucher code an activation record holds, with what it decodes to
ActivatedCodes ==
    UNION {{Activations[i].voucher_codes[k] : k \in 1..Len(Activations[i].voucher_codes)} :
              i \in 1..Len(Activations)}

Decoded == [code \in ActivatedCodes |-> parse_voucher_code(code)]

Decodes(code) == ~Decoded[code].err

\* the pool position a code names: household, pool key, 1-based voucher number
Positions ==
    [code \in ActivatedCodes |->
        << Decoded[code].household_id, Str(Decoded[code].denom), Decoded[code].idx >>]

Position(code) == Positions[code]

\* the code names a position of the pool table json
InRange(json, code) ==
    /\ Decodes(code)
    /\ LET pos == Position(code)
       IN  /\ pos[1] \in DOMAIN json
           /\ pos[2] \in DOMAIN json[pos[1]]
           /\ pos[3] \in 1..Len(json[pos[1]][pos[2]])

IsUsed(json, code) ==
    /\ InRange(json, code)
    /\ LET pos == Position(code) IN json[pos[1]][pos[2]][pos[3]] = 1

\* a ledger row's voucher names the position the code names
Covered(rows, code) ==
    /\ Decodes(code)
    /\ \E i \in 1..Len(rows) :
           /\ Decodes(rows[i].Voucher_Code)
           /\ Position(rows[i].Voucher_Code) = Position(code)

\* every code before the first one whose number is in hits decodes and is
\* in range
CleanUpToFirst(json, codes, hits) ==
    \A k \in hits :
        (\A j \in 1..(k - 1) : j \notin hits)
            => \A j \in 1..(k - 1) : InRange(json, codes[j])

\* rows of different transactions name different positions
NoDoubleCover(rows) ==
    \A i, j \in 1..Len(rows) :
        rows[i].Transaction_ID # rows[j].Transaction_ID
            => Position(rows[i].Voucher_Code) # Position(rows[j].Voucher_Code)

(***************************************************************************)
(* C1  At-most-once redemption over complete redeem requests.              *)
(***************************************************************************)

\* C1 as stated: once a redeem whose bundle contains position p has
\* succeeded (a ledger row names p), every later redeem whose bundle
\* contains p is rejected as already redeemed.
C1_RejectedAsAlreadyRedeemed ==
    [][LET codes == Bundle(LastRedeem'.barcode)
       IN  (\E k \in 1..Len(codes) : Covered(transactions_csv, codes[k]))
               => LastRedeem'.result = "Declined"]_vars

\* C1 amended: such a later redeem is rejected and writes nothing; it is
\* rejected as already redeemed exactly when every code before the first
\* redeemed one decodes and is in range, and otherwise with that code's
\* format or index error.  No position is covered by two successful
\* redemptions.
C1_AtMostOnce ==
    [][LET codes == Bundle(LastRedeem'.barcode)
           hits  == {k \in 1..Len(codes) : Covered(transactions_csv, codes[k])}
       IN  /\ hits # {}
                  => /\ LastRedeem'.result \in Rejections
                     /\ LastRedeem'.result = "Declined"
                            <=> CleanUpToFirst(voucher_state_json, codes, hits)
                     /\ transactions_csv' = transactions_csv
                     /\ voucher_state_json' = voucher_state_json
           /\ NoDoubleCover(transactions_csv')]_vars

\* a bundle that shares a redeemed position has been declined
C1_Witness ==
    /\ LastRedeem.pc = "done"
    /\ LastRedeem.result = "Declined"
    /\ \E k \in 1..Len(Bundle(LastRedeem.barcode)) :
           Covered(transactions_csv, Bundle(LastRedeem.barcode)[k])
    /\ \E i \in 1..Len(transactions_csv) :
           transactions_csv[i].Merchant_ID # LastRedeem.merchant_id

(***************************************************************************)
(* C3  All-or-nothing on a used voucher.                                   *)
(***************************************************************************)

\* C3 as stated: if at least one position of the bundle is already used
\* when redeem validates, the bundle is rejected as already redeemed, every
\* pool position keeps its value in memory and in the pool table, and no
\* ledger line is appended.
C3_DeclinedWhenAnyUsed ==
    [][LET codes == Bundle(LastRedeem'.barcode)
       IN  (\E k \in 1..Len(codes) : IsUsed(voucher_state_json, codes[k]))
               => /\ LastRedeem'.result = "Declined"
                  /\ UNCHANGED << voucher_state_json, registry, transactions_csv >>]_vars

\* C3 amended: such a bundle is rejected, as already redeemed exactly when
\* every code before the first used one decodes and is in range and
\* otherwise with that code's format or index error; every pool position
\* keeps its value in memory and in the pool table, the fresh vouchers
\* before the used one included, and the ledger is untouched.
C3_AllOrNothing ==
    [][LET codes == Bundle(LastRedeem'.barcode)
           used  == {k \in 1..Len(codes) : IsUsed(voucher_state_json, codes[k])}
       IN  used # {}
               => /\ LastRedeem'.result \in Rejections
                  /\ LastRedeem'.result = "Declined"
                         <=> CleanUpToFirst(voucher_state_json, codes, used)
                  /\ UNCHANGED << voucher_state_json, registry, transactions_csv,
                                  transactions_csv_exists, households_csv >>]_vars

\* a bundle whose first voucher is fresh and whose second is used has been
\* declined, and the fresh one is still unused
C3_Witness ==
    /\ LastRedeem.pc = "done"
    /\ LastRedeem.result = "Declined"
    /\ LET codes == Bundle(LastRedeem.barcode)
       IN  /\ Len(codes) >= 2
           /\ InRange(voucher_state_json, codes[1])
           /\ ~IsUsed(voucher_state_json, codes[1])
           /\ ~IsUsed(registry.portal.household_voucher_state, codes[1])
           /\ IsUsed(voucher_state_json, codes[2])

(***************************************************************************)
(* C5  Ledger lines match flips one-to-one.                                *)
(***************************************************************************)

\* C5: each ledger line a redeem appends names a position that this redeem
\* flipped from 0 to 1, and distinct lines of the ledger name distinct
\* positions.
C5_LinesMatchFlips ==
    [][\A i \in (Len(transactions_csv) + 1)..Len(transactions_csv') :
           /\ ~IsUsed(voucher_state_json, transactions_csv'[i].Voucher_Code)
           /\ IsUsed(voucher_state_json', transactions_csv'[i].Voucher_Code)
           /\ \A j \in 1..Len(transactions_csv') :
                  j # i => Position(transactions_csv'[j].Voucher_Code)
                               # Position(transactions_csv'[i].Voucher_Code)]_vars

(***************************************************************************)
(* C6  Successful commit.                                                  *)
(***************************************************************************)

RECURSIVE SumDenoms(_)
SumDenoms(codes) ==
    IF codes = << >> THEN 0 ELSE Decoded[Head(codes)].denom + SumDenoms(Tail(codes))

\* the pool table json with exactly the positions the codes name set to used
WithUsed(json, codes) ==
    [hid \in DOMAIN json |->
        [key \in DOMAIN json[hid] |->
            [i \in 1..Len(json[hid][key]) |->
                IF \E k \in 1..Len(codes) : Position(codes[k]) = << hid, key, i >>
                THEN 1 ELSE json[hid][key][i]]]]

\* the codes name distinct, in-range, unused positions of json
FreshBundle(json, codes) ==
    /\ codes # << >>
    /\ \A k \in 1..Len(codes) : InRange(json, codes[k]) /\ ~IsUsed(json, codes[k])
    /\ \A k, l \in 1..Len(codes) : k # l => Position(codes[k]) # Position(codes[l])

\* C6: redeeming a bundle of n distinct, in-range, unused vouchers flips
\* exactly those n positions and no other position of any household, in
\* memory and in the pool table, appends exactly n ledger lines that carry
\* one transaction id, the session's merchant id and status Completed, and
\* reports the sum of the decoded denominations (17 for 2, 5 and 10).
C6_SuccessfulCommit ==
    [][LET r     == LastRedeem'
           codes == Bundle(r.barcode)
           n     == Len(codes)
           old   == Len(transactions_csv)
       IN  FreshBundle(voucher_state_json, codes)
               => /\ r.result = "Redemption Successful!"
                  /\ voucher_state_json' = WithUsed(voucher_state_json, codes)
                  /\ registry'.portal.household_voucher_state = voucher_state_json'
                  /\ Len(transactions_csv') = old + n
                  /\ SubSeq(transactions_csv', 1, old) = transactions_csv
                  /\ \A k \in 1..n :
                         /\ transactions_csv'[old + k].Transaction_ID = r.tx_id
                         /\ transactions_csv'[old + k].Merchant_ID = r.merchant_id
                         /\ transactions_csv'[old + k].Payment_Status = "Completed"
                         /\ transactions_csv'[old + k].Voucher_Code = codes[k]
                         /\ transactions_csv'[old + k].Amount_Redeemed
                                = Dollars(SumDenoms(codes))
                  /\ r.total_amount = SumDenoms(codes)
                  /\ {Decoded[codes[k]].denom : k \in 1..n} = {2, 5, 10} /\ n = 3
                         => r.total_amount = 17]_vars

\* the three-voucher bundle of denominations 2, 5 and 10 has been redeemed
\* for 17 while another household's pool and earlier rows stayed as they were
C6_Witness ==
    /\ LastRedeem.pc = "done"
    /\ LastRedeem.result = "Redemption Successful!"
    /\ Len(LastRedeem.voucher_codes) = 3
    /\ LastRedeem.total_amount = 17
    /\ Len(transactions_csv) > 3
    /\ transactions_csv[Len(transactions_csv)].Amount_Redeemed = Dollars(17)

(***************************************************************************)
(* C4  Used is terminal.                                                   *)
(***************************************************************************)

\* every position that is used in the pool table before is used in after
StaysUsed(before, after) ==
    \A hid \in DOMAIN before :
        \A key \in DOMAIN before[hid] :
            \A i \in 1..Len(before[hid][key]) :
                before[hid][key][i] = 1
                    => /\ hid \in DOMAIN after
                       /\ key \in DOMAIN after[hid]
                       /\ i \in 1..Len(after[hid][key])
                       /\ after[hid][key][i] = 1

\* C4: over complete redeem calls on the portal's registry and complete
\* register_household calls on server.py's registry, a position that is 1
\* in the pool table is 1 in every later pool table.
C4_UsedIsTerminal ==
    [][StaysUsed(voucher_state_json, voucher_state_json')]_vars

\* Complete register_household calls only, from two sessions of the
\* registration page, on server.py's registry.
NextRegister ==
    \E t \in Threads, fin_raw \in FinInputs : RegisterHousehold(t, fin_raw)

SpecRegister == Init /\ [][NextRegister]_vars

(***************************************************************************)
(* C8  Registration is idempotent.                                         *)
(***************************************************************************)

ServerMap == registry.server.fin_to_household

ServerPools == registry.server.household_voucher_state

\* every pool of before is in after with the same contents
PoolsKept(before, after) ==
    \A hid \in DOMAIN before : hid \in DOMAIN after /\ after[hid] = before[hid]

\* C8: a register_household call whose input normalizes to a national
\* identifier that an earlier call registered returns the identifier that
\* call returned, reports already-registered, allocates nothing and changes
\* neither the identity mapping nor any existing pool.
C8_RegistrationIdempotent ==
    [][\A t \in Threads :
           LET c == register_req'[t]
           IN  (register_req'[t] # register_req[t]
                    /\ normalize_fin(c.fin_raw) \in DOMAIN ServerMap)
                   => /\ c.error = ""
                      /\ c.already_registered = TRUE
                      /\ c.hid = ServerMap[normalize_fin(c.fin_raw)]
                      /\ \A u \in Threads :
                             (register_req[u].pc = "done" /\ register_req[u].error = ""
                                  /\ register_req[u].fin = c.fin)
                                 => register_req[u].hid = c.hid
                      /\ ServerMap' = ServerMap
                      /\ households_csv' = households_csv
                      /\ PoolsKept(ServerPools, ServerPools')
                      /\ PoolsKept(voucher_state_json, voucher_state_json')]_vars

\* two sessions registered the same identifier under different spellings:
\* one was told it is new, the other that it exists, both got the same id
C8_Witness ==
    /\ register_req["t1"].pc = "done" /\ register_req["t2"].pc = "done"
    /\ register_req["t1"].fin_raw # register_req["t2"].fin_raw
    /\ register_req["t1"].fin = register_req["t2"].fin
    /\ register_req["t1"].fin # << >>
    /\ ~register_req["t1"].already_registered
    /\ register_req["t2"].already_registered
    /\ register_req["t1"].hid = register_req["t2"].hid

(***************************************************************************)
(* C9  The identity mapping is a bijection onto H0001, H0002, ...          *)
(***************************************************************************)

\* the identifiers in order of allocation
ExpectedIds ==
    << << "H", "0", "0", "0", "1" >>, << "H", "0", "0", "0", "2" >>,
       << "H", "0", "0", "0", "3" >>, << "H", "0", "0", "0", "4" >> >>

\* C9: from an empty store, distinct national identifiers map to distinct
\* household identifiers, a registered identifier keeps its household
\* identifier, and the k-th identifier registered gets H000k.
C9_IdentityBijection ==
    [][/\ \A fin \in DOMAIN ServerMap :
              fin \in DOMAIN ServerMap' /\ ServerMap'[fin] = ServerMap[fin]
       /\ \A fin \in DOMAIN ServerMap' \ DOMAIN ServerMap :
              ServerMap'[fin] = ExpectedIds[Cardinality(DOMAIN ServerMap) + 1]
       /\ \A f, g \in DOMAIN ServerMap' : f # g => ServerMap'[f] # ServerMap'[g]
       /\ {ServerMap'[fin] : fin \in DOMAIN ServerMap'}
              = {ExpectedIds[k] : k \in 1..Cardinality(DOMAIN ServerMap')}
       /\ households_csv' = ServerMap']_vars

\* three identifiers are registered and the last call was given H0003
C9_Witness ==
    /\ Cardinality(DOMAIN ServerMap) = 3
    /\ \E t \in Threads :
           /\ register_req[t].pc = "done"
           /\ ~register_req[t].already_registered
           /\ register_req[t].hid = ExpectedIds[3]
           /\ ServerMap[register_req[t].fin] = ExpectedIds[3]

(***************************************************************************)
(* C2  Concurrent redemption of overlapping bundles.                       *)
(***************************************************************************)

\* the pool table both requests start from: every position unused
StartJson == RegisteredWorld.json

SharePosition(codes1, codes2) ==
    \E k \in 1..Len(codes1), l \in 1..Len(codes2) :
        Decodes(codes1[k]) /\ Decodes(codes2[l])
            /\ Position(codes1[k]) = Position(codes2[l])

BothDone == \A t \in Threads : redeem_req[t].pc = "done"

\* C2: of two requests whose bundles are redeemable on their own and share
\* a position, whatever the interleaving of their steps, exactly one
\* succeeds and the other is rejected as already redeemed.
C2_ExactlyOneSucceeds ==
    LET a == redeem_req["t1"]
        b == redeem_req["t2"]
    IN  (/\ BothDone
         /\ FreshBundle(StartJson, Bundle(a.barcode))
         /\ FreshBundle(StartJson, Bundle(b.barcode))
         /\ SharePosition(Bundle(a.barcode), Bundle(b.barcode)))
            => \/ a.result = "Redemption Successful!" /\ b.result = "Declined"
               \/ b.result = "Redemption Successful!" /\ a.result = "Declined"

(***************************************************************************)
(* C7  Transaction ids under concurrency.                                  *)
(***************************************************************************)

\* C7: two requests on redeemable, disjoint bundles both succeed, whatever
\* the interleaving of their steps, and their ledger lines carry two
\* different transaction ids.
C7_DistinctTransactionIds ==
    LET a == redeem_req["t1"]
        b == redeem_req["t2"]
    IN  (/\ BothDone
         /\ FreshBundle(StartJson, Bundle(a.barcode))
         /\ FreshBundle(StartJson, Bundle(b.barcode))
         /\ ~SharePosition(Bundle(a.barcode), Bundle(b.barcode)))
            => /\ a.result = "Redemption Successful!"
               /\ b.result = "Redemption Successful!"
               /\ a.tx_id # b.tx_id
               /\ \A i, j \in 1..Len(transactions_csv) :
                      transactions_csv[i].Merchant_ID # transactions_csv[j].Merchant_ID
                          => transactions_csv[i].Transaction_ID
                                 # transactions_csv[j].Transaction_ID

(***************************************************************************)
(* C10  Concurrent registration.                                           *)
(***************************************************************************)

\* C10: of two register_household calls on one registry, whatever the
\* interleaving of their steps, two calls with the same national identifier
\* return the same household identifier and two calls with different
\* national identifiers return different household identifiers.
C10_ConcurrentRegistration ==
    LET a == register_req["t1"]
        b == register_req["t2"]
    IN  (a.pc = "done" /\ b.pc = "done" /\ a.error = "" /\ b.error = "")
            => /\ a.fin = b.fin => a.hid = b.hid
               /\ a.fin # b.fin => a.hid # b.hid

(***************************************************************************)
(* C11  Identifier allocation.                                             *)
(***************************************************************************)

\* Identifiers found in the files when the processes start, by kind: in
\* sequence, after a gap, with a wrong prefix, with a suffix that is not a
\* number, and with a suffix of a digit character that is not decimal.
IdKinds == {"first", "third", "prefix", "suffix", "superscript"}

ExistingId(kind, prefix, width) ==
    CASE kind = "first"  -> prefix \o Pad(1, width)
      [] kind = "third"  -> prefix \o Pad(3, width)
      [] kind = "prefix" -> << "X" >> \o Pad(7, width)
      [] kind = "suffix" -> prefix \o << "0", "9", "x" >>
      [] OTHER           -> prefix \o << "²" >>

\* the national identifiers of the households found in households.csv
ExistingFins == << << "S", "1" >>, << "T", "2" >>, << "W", "4" >> >>

\* at most this many rows in the ledger and in merchant.csv at the start
MaxExisting == 2

\* a ledger whose rows carry the given identifiers
LedgerOf(ids) ==
    [i \in 1..Len(ids) |->
        [Transaction_ID        |-> ids[i],
         Household_ID          |-> HouseholdId(2),
         Merchant_ID           |-> "M002",
         Transaction_Date_Time |-> "20251231235959",
         Voucher_Code          |-> V(10, 45, 2),
         Denomination_Used     |-> Dollars(10),
         Amount_Redeemed       |-> Dollars(10),
         Payment_Status        |-> "Completed",
         Remarks               |-> << "Final denomination used" >>]]

\* a merchant.csv whose rows carry the given identifiers
MerchantsOf(ids) ==
    [i \in 1..Len(ids) |->
        [Merchant_ID         |-> ids[i],
         Merchant_Name       |-> << "S", "h", "o", "p" >> \o Str(i),
         Bank_Name           |-> << "U", "O", "B", " ", "B", "a", "n", "k" >>,
         Account_Number      |-> Pad(900000000 + i, 9),
         Account_Holder_Name |-> << "L", "i", "m" >>]]

SeqsUpTo(S, n) == UNION {[1..k -> S] : k \in 0..n}

\* Both processes started on a data directory whose three files hold
\* identifiers of the same kinds; the pools of H0001 and H0002 exist, and
\* __init__ adds the missing ones.
InitAlloc ==
    \E kinds \in SeqsUpTo(IdKinds, MaxExisting) :
        /\ households_csv =
               [fin \in {ExistingFins[i] : i \in 1..Len(kinds)} |->
                   ExistingId(kinds[CHOOSE i \in 1..Len(kinds) : ExistingFins[i] = fin],
                              << "H" >>, 4)]
        /\ transactions_csv =
               LedgerOf([i \in 1..Len(kinds) |-> ExistingId(kinds[i], << "T", "X" >>, 5)])
        /\ transactions_csv_exists = (kinds # << >>)
        /\ merchant_csv =
               [exists |-> kinds # << >>,
                rows   |-> MerchantsOf([i \in 1..Len(kinds) |->
                                           ExistingId(kinds[i], << "M" >>, 3)])]
        /\ registry = [portal |-> NewRegistry(households_csv, RegisteredWorld.json),
                       server |-> NewRegistry(households_csv, RegisteredWorld.json)]
        /\ voucher_state_json = registry.server.household_voucher_state
        /\ redeem_req = [t \in Threads |-> IdleRedeem]
        /\ register_req = [t \in Threads |-> IdleRegister]
        /\ merchant_req = IdleMerchant
    /\ codec = NoCodec
    /\ history_req = IdleHistory

\* One allocation of each kind: a household not yet registered, a
\* redemption of one voucher, a merchant not yet registered.
NextAlloc ==
    \/ RegisterHousehold("t1", << "u", "3" >>)
    \/ \E tx_time \in Clock : Redeem("t1", "1000000000001", "M001", tx_time)
    \/ RegisterMerchant([Merchant_Name       |-> << "K", "o", "p", "i" >>,
                         Bank_Name           |-> << "U", "O", "B", " ", "B", "a", "n", "k" >>,
                         Account_Number      |-> Pad(111111111, 9),
                         Account_Holder_Name |-> << "T", "a", "n" >>])

SpecAlloc == InitAlloc /\ [][NextAlloc]_vars

\* an identifier of the form prefix + decimal digits
WellFormed(id, prefix) ==
    /\ startswith(id, prefix)
    /\ Len(id) > Len(prefix)
    /\ \A i \in (Len(prefix) + 1)..Len(id) : IsDigit(id[i])

\* prefix + zero-padded (max + 1) over the well-formed identifiers of ids
MaxPlusOne(ids, prefix, width) ==
    LET nums == {DigitsValue(SubSeq(id, Len(prefix) + 1, Len(id)), 0) :
                    id \in {x \in ids : WellFormed(x, prefix)}}
    IN  prefix \o Pad(SetMax(nums \cup {0}) + 1, width)

\* C11: every call that comes to allocate an identifier (a registration of
\* an unseen national identifier, a redemption that passed validation, a
\* registration of an unseen merchant) completes with the identifier
\* prefix + zero-padded (max + 1), max being the largest numeric suffix among
\* the existing identifiers of the form prefix + digits, all others ignored.
C11_MaxPlusOne ==
    [][/\ (register_req'["t1"] # register_req["t1"]
              /\ ~register_req'["t1"].already_registered)
          => /\ register_req'["t1"].error = ""
             /\ register_req'["t1"].hid =
                    MaxPlusOne({registry.server.fin_to_household[f] :
                                   f \in DOMAIN registry.server.fin_to_household},
                               << "H" >>, 4)
       /\ (redeem_req'["t1"] # redeem_req["t1"]
              /\ redeem_req'["t1"].result \notin Rejections)
          => /\ redeem_req'["t1"].result = "Redemption Successful!"
             /\ redeem_req'["t1"].tx_id =
                    MaxPlusOne({transactions_csv[i].Transaction_ID :
                                   i \in 1..Len(transactions_csv)},
                               << "T", "X" >>, 5)
       /\ (merchant_req' # merchant_req
              /\ merchant_req'.response # "Already Registered")
          => /\ merchant_req'.response = "Registered"
             /\ merchant_req'.merchant_id =
                    MaxPlusOne({merchant_csv.rows[i].Merchant_ID :
                                   i \in 1..Len(merchant_csv.rows)},
                               << "M" >>, 3)]_vars

(***************************************************************************)
(* C12  The allocator and the durable identity table.                      *)
(***************************************************************************)

\* national identifiers of households that another writer adds to
\* households.csv, and the largest number it gives out
OtherFins == { << "W", "4" >>, << "Y", "5" >> }

MaxOtherId == 4

DurableIds == {households_csv[fin] : fin \in DOMAIN households_csv}

IdNumber(id) == DigitsValue(Tail(id), 0)

\* Another writer adds a row with an identifier higher than every one in
\* the file.  The registry of server.py read the file in __init__ only.
AddHouseholdRow(fin, n) ==
    /\ NoCallInFlight
    /\ fin \notin DOMAIN households_csv
    /\ \A id \in DurableIds : IdNumber(id) < n
    /\ households_csv' = (fin :> HouseholdId(n)) @@ households_csv
    /\ UNCHANGED << voucher_state_json, transactions_csv, transactions_csv_exists,
                    registry, redeem_req, register_req, merchant_csv, merchant_req, codec, history_req >>

NextEdited ==
    \/ \E fin_raw \in FinInputs : RegisterHousehold("t1", fin_raw)
    \/ \E fin \in OtherFins, n \in 1..MaxOtherId : AddHouseholdRow(fin, n)

SpecEdited == Init /\ [][NextEdited]_vars

\* C12: a register_household call that registers an unseen national
\* identifier returns an identifier that is above every identifier of
\* households.csv as it stands at the call, rows added since the registry
\* was constructed included, and so is not present in it.
C12_AboveDurable ==
    [][(/\ register_req'["t1"] # register_req["t1"]
        /\ register_req'["t1"].error = ""
        /\ ~register_req'["t1"].already_registered)
          => /\ register_req'["t1"].hid \notin DurableIds
             /\ \A id \in DurableIds : IdNumber(id) < IdNumber(register_req'["t1"].hid)
      ]_vars

(***************************************************************************)
(* C13  Index bounds.                                                      *)
(***************************************************************************)

\* the code decodes to a registered household, a configured denomination
\* and a voucher number i with 1 <= i <= L, L the configured pool length
WithinBounds(json, code) ==
    /\ Decodes(code)
    /\ Decoded[code].household_id \in DOMAIN json
    /\ Decoded[code].denom \in DOMAIN voucher_counts
    /\ Decoded[code].idx >= 1
    /\ Decoded[code].idx <= voucher_counts[Decoded[code].denom]

\* the numbers of the codes of a bundle that cannot be redeemed, and the
\* first of them (0 when there is none)
Disqualified(json, codes) ==
    {k \in 1..Len(codes) : \/ ~Decodes(codes[k])
                           \/ ~WithinBounds(json, codes[k])
                           \/ IsUsed(json, codes[k])}

FirstDisqualified(json, codes) ==
    IF Disqualified(json, codes) = {} THEN 0
    ELSE CHOOSE k \in Disqualified(json, codes) :
             \A j \in Disqualified(json, codes) : k <= j

OutOfBounds(json, codes) ==
    {k \in 1..Len(codes) : Decodes(codes[k]) /\ ~WithinBounds(json, codes[k])}

\* C13 as stated: when any code of the bundle fails the bounds check,
\* redeem returns an index error, flips no position and appends no line.
C13_IndexErrorWhenAnyOutOfBounds ==
    [][LET codes == Bundle(LastRedeem'.barcode)
       IN  OutOfBounds(voucher_state_json, codes) # {}
               => /\ LastRedeem'.result = "Voucher index out of range"
                  /\ UNCHANGED << voucher_state_json, registry, transactions_csv >>]_vars

\* C13 amended: redeem returns an index error exactly when the first code
\* of the bundle that cannot be redeemed is one that decodes and is not
\* within bounds (voucher number below 1 or above the configured length,
\* unknown household, unknown denomination); when any code of the bundle
\* is out of bounds the redeem is rejected, with the error of the first
\* code that cannot be redeemed, no position is flipped in memory or in the
\* pool table, those validated earlier in the bundle included, and no
\* ledger line is appended.
C13_IndexBounds ==
    [][LET codes == Bundle(LastRedeem'.barcode)
           out   == OutOfBounds(voucher_state_json, codes)
       IN  /\ LastRedeem'.result = "Voucher index out of range"
                  <=> FirstDisqualified(voucher_state_json, codes) \in out
           /\ out # {}
                  => /\ LastRedeem'.result \in Rejections
                     /\ UNCHANGED << voucher_state_json, registry, transactions_csv,
                                     transactions_csv_exists, households_csv >>]_vars

\* the last voucher of the 80-voucher pool has been redeemed, and a bundle
\* with a fresh voucher followed by voucher number 81 has met an index
\* error that left the fresh voucher unused
C13_Witness ==
    /\ LastRedeem.pc = "done"
    /\ LastRedeem.result = "Voucher index out of range"
    /\ IsUsed(voucher_state_json, V(2, 80, 1))
    /\ LET codes == Bundle(LastRedeem.barcode)
       IN  /\ Len(codes) = 2
           /\ WithinBounds(voucher_state_json, codes[1])
           /\ ~IsUsed(voucher_state_json, codes[1])
           /\ ~IsUsed(registry.portal.household_voucher_state, codes[1])
           /\ Decoded[codes[2]].idx = 81

(***************************************************************************)
(* C14  init_voucher_state on a household that has a pool.                 *)
(***************************************************************************)

\* server.py (re)started on the data directory, at any moment: the calls
\* in flight in the old process are lost, and __init__ loads both files,
\* adds the missing pools and writes voucher_state.json back
ServerStart ==
    /\ \A t \in Threads : redeem_req[t].pc \in {"idle", "done"}
    /\ registry' = [registry EXCEPT
                        !.server = NewRegistry(households_csv, voucher_state_json)]
    /\ voucher_state_json' = registry'.server.household_voucher_state
    /\ register_req' = [t \in Threads |->
                           IF register_req[t].pc \in {"idle", "done"}
                           THEN register_req[t] ELSE IdleRegister]
    /\ UNCHANGED << households_csv, transactions_csv, transactions_csv_exists,
                    redeem_req, merchant_csv, merchant_req, codec, history_req >>

\* households init_voucher_state is called for: two with a pool, one without
PoolIds == {HouseholdId(1), HouseholdId(2), HouseholdId(3)}

\* a call of init_voucher_state(household_id) on server.py's registry
InitVoucherState(household_id) ==
    /\ NoCallInFlight
    /\ registry' = [registry EXCEPT !.server.household_voucher_state =
                        init_voucher_state(registry.server.household_voucher_state,
                                           household_id)]
    /\ UNCHANGED << households_csv, voucher_state_json, transactions_csv,
                    transactions_csv_exists, redeem_req, register_req,
                    merchant_csv, merchant_req, codec, history_req >>

\* Redemptions at the portal, restarts of server.py, and calls of
\* init_voucher_state on its registry.
NextInitPool ==
    \/ \E barcode \in {"1000000000001", "1000000000002", "1000000000004"},
          tx_time \in Clock : Redeem("t1", barcode, "M001", tx_time)
    \/ ServerStart
    \/ \E household_id \in PoolIds : InitVoucherState(household_id)

SpecInitPool == InitRedeem /\ [][NextInitPool]_vars

\* C14: a call of init_voucher_state for a household that has a pool
\* leaves the pools as they are, used marks included; for a household
\* without a pool it adds an all-zero pool and changes no other.
C14_InitNeverOverwrites ==
    [][\A household_id \in PoolIds :
          InitVoucherState(household_id)
              => LET state == registry.server.household_voucher_state
                 IN  IF household_id \in DOMAIN state
                     THEN registry'.server.household_voucher_state = state
                     ELSE registry'.server.household_voucher_state =
                              (household_id :> NewPool) @@ state]_vars

(***************************************************************************)
(* C15  Lookup errors.                                                     *)
(***************************************************************************)

Activated(barcode) == \E i \in 1..Len(Activations) : Activations[i].barcode = barcode

\* the pages redeem answers a failed request with
Failures == {"Invalid Barcode", "Empty Voucher"} \cup Rejections

RegisterReturn(t) ==
    /\ register_req[t].pc = "done"
    /\ register_req' = [register_req EXCEPT ![t] = IdleRegister]
    /\ UNCHANGED << households_csv, voucher_state_json, transactions_csv,
                    transactions_csv_exists, registry, redeem_req,
                    merchant_csv, merchant_req, codec, history_req >>

\* One register_household call at a time, step by step; server.py may stop
\* and start again between any two steps; the portal redeems between calls.
\* With one call at a time a registered household has its pool in memory,
\* so the "Existing" branch never comes to repair one.
NextServer ==
    \/ \E fin_raw \in FinInputs : RegisterBegin("t1", fin_raw)
    \/ RegisterCheck("t1")
    \/ RegisterExisting("t1")
    \/ RegisterNextId("t1")
    \/ RegisterInsert("t1")
    \/ RegisterInit("t1")
    \/ RegisterSaveHouseholds("t1")
    \/ RegisterSaveVoucherState("t1")
    \/ RegisterReturn("t1")
    \/ ServerStart
    \/ /\ Len(transactions_csv) < MaxLedger
       /\ \E barcode \in {"1000000000001", "1000000000004"}, tx_time \in Clock :
              Redeem("t1", barcode, "M001", tx_time)

SpecServer == Init /\ [][NextServer]_vars

\* every household identifier of the identity table has a pool in the
\* pool table
Paired(rows, json) == \A fin \in DOMAIN rows : rows[fin] \in DOMAIN json

\* all zeros, with exactly the configured denominations and lengths
FreshPool(pool) ==
    /\ DOMAIN pool = {Str(denom) : denom \in DOMAIN voucher_counts}
    /\ \A denom \in DOMAIN voucher_counts :
           /\ Len(pool[Str(denom)]) = voucher_counts[denom]
           /\ \A i \in 1..voucher_counts[denom] : pool[Str(denom)][i] = 0

\* C16: when a register_household call completes (new or already
\* registered) and when a registry has been constructed, every household
\* identifier of households.csv has a pool in voucher_state.json; the pool
\* of a newly registered household is then all zeros with the configured
\* denominations and lengths; and the identity table is written before the
\* pool table: a step that puts the pool of a new household into
\* voucher_state.json finds its row in households.csv.
C16_IdentityPoolPaired ==
    [][/\ (\/ register_req["t1"].pc # "done" /\ register_req'["t1"].pc = "done"
              /\ register_req'["t1"].error = ""
           \/ ServerStart)
          => Paired(households_csv', voucher_state_json')
       /\ (/\ register_req["t1"].pc # "done" /\ register_req'["t1"].pc = "done"
           /\ register_req'["t1"].error = ""
           /\ ~register_req'["t1"].already_registered)
          => /\ households_csv'[register_req'["t1"].fin] = register_req'["t1"].hid
             /\ FreshPool(voucher_state_json'[register_req'["t1"].hid])
       /\ RegisterSaveVoucherState("t1")
          => \A hid \in DOMAIN voucher_state_json' \ DOMAIN voucher_state_json :
                 hid \in {households_csv[fin] : fin \in DOMAIN households_csv}]_vars

\* two households are registered, each with its row and its pool, and a
\* voucher of the first has been redeemed
C16_Witness ==
    /\ register_req["t1"].pc = "idle"
    /\ \E fin \in DOMAIN households_csv :
           /\ households_csv[fin] = HouseholdId(2)
           /\ HouseholdId(2) \in DOMAIN voucher_state_json
    /\ \E i \in 1..Len(transactions_csv) :
           transactions_csv[i].Household_ID = HouseholdId(1)

(***************************************************************************)
(* C17  Codec round trip.                                                  *)
(***************************************************************************)

\* household ids handed to format_voucher_code: an allocated one, short
\* ones with a blank before, inside and after, a blank alone, one with the
\* separator, and the empty text
HouseholdIdTexts ==
    { HouseholdId(1), << " ", "H", "1" >>, << "H", " ", "1" >>, << "H", "1", " " >>,
      << " " >>, << "H", "-", "1" >>, << >> }

\* denominations and voucher numbers: 0, the configured ones, and numbers
\* wider than the padding
DenomInputs == {0, 2, 10, 100}

IdxInputs == {0, 1, 80, 10000}

FormatVoucherCode(household_id, denom, idx) ==
    /\ codec' = [household_id |-> household_id, denom |-> denom, idx |-> idx,
                 code |-> format_voucher_code(household_id, denom, idx),
                 parsed |-> NotParsed]
    /\ UNCHANGED << households_csv, voucher_state_json, transactions_csv,
                    transactions_csv_exists, registry, redeem_req, register_req,
                    merchant_csv, merchant_req, history_req >>

\* parse_voucher_code on the code last formatted
ParseFormatted ==
    /\ codec.code # << >>
    /\ codec.parsed = NotParsed
    /\ codec' = [codec EXCEPT !.parsed = parse_voucher_code(codec.code)]
    /\ UNCHANGED << households_csv, voucher_state_json, transactions_csv,
                    transactions_csv_exists, registry, redeem_req, register_req,
                    merchant_csv, merchant_req, history_req >>

NextCodec ==
    \/ \E household_id \in HouseholdIdTexts, denom \in DenomInputs, idx \in IdxInputs :
           FormatVoucherCode(household_id, denom, idx)
    \/ ParseFormatted

SpecCodec == Init /\ [][NextCodec]_vars

\* C17: for a household id that is non-empty and holds no '-', a
\* denomination >= 0 and an index >= 0, parsing the formatted code returns
\* the triple that was formatted.
C17_RoundTrip ==
    (/\ codec.parsed # NotParsed
     /\ codec.household_id # << >>
     /\ \A k \in 1..Len(codec.household_id) : codec.household_id[k] # "-")
        => /\ ~codec.parsed.err
           /\ codec.parsed.household_id = codec.household_id
           /\ codec.parsed.denom = codec.denom
           /\ codec.parsed.idx = codec.idx

(***************************************************************************)
(* C18  Malformed codes.                                                   *)
(***************************************************************************)

H1 == HouseholdId(1)

\* codes handed to parse_voucher_code: well formed, with one, two and four
\* segments, without the marker, with a denomination or an index that is
\* missing or not a number, and with numbers written with a sign, blanks
\* or an underscore
CodeTexts ==
    { V(2, 1, 1),
      << "V", "2", "-", "1", "-" >> \o H1,
      << " " >> \o V(2, 1, 1) \o << " " >>,
      << >>,
      << "V", "0", "2" >>,
      << "V", "0", "2", "-", "0", "0", "0", "1" >>,
      V(2, 1, 1) \o << "-", "X" >>,
      << "V", "0", "2", "-", "-", "1", "-" >> \o H1,
      << "X", "0", "2", "-", "0", "0", "0", "1", "-" >> \o H1,
      << "v", "0", "2", "-", "0", "0", "0", "1", "-" >> \o H1,
      << "0", "2", "-", "0", "0", "0", "1", "-" >> \o H1,
      << "V", "A", "B", "-", "0", "0", "0", "1", "-" >> \o H1,
      << "V", "-", "0", "0", "0", "1", "-" >> \o H1,
      << "V", "0", "2", "-", "0", "0", "x", "1", "-" >> \o H1,
      << "V", "0", "2", "-", "-" >> \o H1,
      << "V", "0", "2", "-", "²", "-" >> \o H1,
      << "V", "+", "2", "-", "1", "-" >> \o H1,
      << "V", "0", "2", "-", " ", "1", " ", "-" >> \o H1,
      << "V", "0", "2", "-", "1", "_", "0", "-" >> \o H1 }

\* a call of parse_voucher_code(code)
ParseVoucherCode(code) ==
    /\ NoCallInFlight
    /\ codec' = [NoCodec EXCEPT !.code = code, !.parsed = parse_voucher_code(code)]
    /\ UNCHANGED << households_csv, voucher_state_json, transactions_csv,
                    transactions_csv_exists, registry, redeem_req, register_req,
                    merchant_csv, merchant_req, history_req >>

\* Calls of the parser, and redemptions of a single voucher, of a bundle
\* that ends in a malformed code and of one that holds a malformed code
\* after one past the end of its pool.
NextParse ==
    \/ \E code \in CodeTexts : ParseVoucherCode(code)
    \/ \E barcode \in {"1000000000001", "1000000000007", "1000000000010"},
          tx_time \in Clock : Redeem("t1", barcode, "M001", tx_time)

SpecParse == InitRedeem /\ [][NextParse]_vars

\* the text writes a non-negative integer: decimal digits, which may have
\* blanks around them, a plus sign before them and single underscores
\* between them
IntegerText(seg) ==
    \E a \in 1..Len(seg), b \in 1..Len(seg) :
        /\ a <= b
        /\ IsDigit(seg[b])
        /\ \A i \in 1..Len(seg) :
               CASE i < a -> seg[i] = " " \/ (seg[i] = "+" /\ i = a - 1)
                 [] i > b -> seg[i] = " "
                 [] OTHER -> \/ IsDigit(seg[i])
                             \/ /\ seg[i] = "_"
                                /\ i > a
                                /\ IsDigit(seg[i - 1])
        /\ IsDigit(seg[a])

\* the code, blanks around it dropped, has other than three segments, or a
\* first segment without the marker, or a denomination or an index that
\* does not write a non-negative integer
Malformed(code) ==
    LET segs == split(strip(code), "-")
    IN  \/ Len(segs) # 3
        \/ segs[1] = << >>
        \/ segs[1][1] # "V"
        \/ ~IntegerText(Tail(segs[1]))
        \/ ~IntegerText(segs[2])

MalformedIn(codes) == {k \in 1..Len(codes) : Malformed(codes[k])}

\* C18 as stated: a redeem whose bundle contains a malformed code returns
\* a format error, flips no position and appends no ledger line.
C18_FormatErrorWhenAnyMalformed ==
    [][LET codes == Bundle(LastRedeem'.barcode)
       IN  (LastRedeem' # LastRedeem /\ MalformedIn(codes) # {})
               => /\ LastRedeem'.result = "Data format error"
                  /\ UNCHANGED << voucher_state_json, registry, transactions_csv >>]_vars

\* C18 amended: parse_voucher_code fails exactly for the malformed codes
\* (blanks around the code and around a number, a plus sign and single
\* underscores between digits are accepted); a redeem whose bundle
\* contains a malformed code is rejected, flips no position and appends no
\* ledger line, and the error is a format error exactly when the malformed
\* code is the first code of the bundle that cannot be redeemed, whatever
\* household or pool it seems to name.
C18_MalformedRejected ==
    [][/\ codec' # codec => (codec'.parsed.err <=> Malformed(codec'.code))
       /\ LastRedeem' # LastRedeem
          => LET codes == Bundle(LastRedeem'.barcode)
                 bad   == MalformedIn(codes)
             IN  /\ LastRedeem'.result = "Data format error"
                        <=> FirstDisqualified(voucher_state_json, codes) \in bad
                 /\ bad # {}
                        => /\ LastRedeem'.result \in Rejections
                           /\ UNCHANGED << voucher_state_json, registry,
                                           transactions_csv, transactions_csv_exists,
                                           households_csv >>]_vars

\* a code without the marker has failed to parse, and a bundle with a fresh
\* voucher followed by a malformed code has met a format error that left
\* the fresh voucher unused
C18_Witness ==
    /\ codec.parsed.err
    /\ codec.code # << >> /\ codec.code[1] = "X"
    /\ LastRedeem.pc = "done"
    /\ LastRedeem.result = "Data format error"
    /\ LET codes == Bundle(LastRedeem.barcode)
       IN  /\ WithinBounds(voucher_state_json, codes[1])
           /\ ~IsUsed(voucher_state_json, codes[1])
           /\ ~IsUsed(registry.portal.household_voucher_state, codes[1])
           /\ Malformed(codes[2])

(***************************************************************************)
(* C19  Reload before validation.                                          *)
(***************************************************************************)

\* the pool positions another process marks used: household, denomination
\* and index in the list
OtherPositions ==
    {[hid |-> HouseholdId(1), denom |-> 2, idx |-> 0],
     [hid |-> HouseholdId(1), denom |-> 5, idx |-> 0],
     [hid |-> HouseholdId(1), denom |-> 5, idx |-> 1]}

\* Another process (a second portal) marks a voucher used in
\* voucher_state.json; the mirror of this portal is not told.
OtherWriterMarks(item) ==
    /\ NoCallInFlight
    /\ voucher_state_json[item.hid][Str(item.denom)][item.idx + 1] = 0
    /\ voucher_state_json' = SetUsed(voucher_state_json, item)
    /\ UNCHANGED << households_csv, transactions_csv, transactions_csv_exists,
                    registry, redeem_req, register_req, merchant_csv, merchant_req,
                    codec, history_req >>

\* Redemptions at this portal of bundles that hold those vouchers, alone,
\* after a fresh voucher and after a voucher that is out of range.
NextReload ==
    \/ \E item \in OtherPositions : OtherWriterMarks(item)
    \/ \E barcode \in {"1000000000001", "1000000000002", "1000000000003",
                       "1000000000008"},
          merchant_id \in Merchants, tx_time \in Clock :
              Redeem("t1", barcode, merchant_id, tx_time)

SpecReload == InitRedeem /\ [][NextReload]_vars

UsedIn(json, codes) == {k \in 1..Len(codes) : IsUsed(json, codes[k])}

\* C19 as stated: if a position of the bundle is used in the pool table
\* when redeem is called while the mirror of the portal holds it unused, the
\* redeem is rejected as already redeemed.
C19_DeclinedOnDurableMark ==
    [][LET codes == Bundle(LastRedeem'.barcode)
           stale == UsedIn(voucher_state_json, codes)
                        \ UsedIn(registry.portal.household_voucher_state, codes)
       IN  (LastRedeem' # LastRedeem /\ stale # {})
               => LastRedeem'.result = "Declined"]_vars

\* C19 amended: redeem validates against the pool table as it stands when
\* the call begins, whatever the mirror held: it succeeds only if no code
\* of the bundle is used there; if one is, the redeem is rejected and
\* writes nothing, as already redeemed exactly when the used code is the
\* first code of the bundle that cannot be redeemed; and once the call has
\* returned the mirror holds what the pool table holds.
C19_ReloadBeforeValidation ==
    [][LastRedeem' # LastRedeem
          => LET codes == Bundle(LastRedeem'.barcode)
                 used  == UsedIn(voucher_state_json, codes)
             IN  /\ LastRedeem'.result = "Declined"
                        <=> FirstDisqualified(voucher_state_json, codes) \in used
                 /\ used # {}
                        => /\ LastRedeem'.result \in Rejections
                           /\ UNCHANGED << voucher_state_json, transactions_csv >>
                 /\ LastRedeem'.result \in Rejections \cup {"Redemption Successful!"}
                        => registry'.portal.household_voucher_state
                               = voucher_state_json']_vars

\* this portal has redeemed nothing, and has declined a bundle because of a
\* mark that another process made
C19_Witness ==
    /\ LastRedeem.pc = "done"
    /\ LastRedeem.result = "Declined"
    /\ transactions_csv = << >>
    /\ UsedIn(voucher_state_json, Bundle(LastRedeem.barcode)) # {}

(***************************************************************************)
(* C20  A failed write of the pool table is not a commit.                  *)
(***************************************************************************)

\* where the write of voucher_state.json can fail
SaveFailures == {"open", "write"}

\* a complete redeem request during which the write of voucher_state.json
\* fails, if the request gets that far
RedeemSaveFails(t, barcode, merchant_id, tx_time, outcome) ==
    /\ NoCallInFlight
    /\ RedeemCommit(t, redeem(redeem_save_fails(
                                  redeem_to_save(RedeemWorld(NewRedeem(barcode, merchant_id)),
                                                 tx_time),
                                  outcome),
                              tx_time))

\* Redemptions at the portal, request t1 with a disk that works and request
\* t2 with a disk on which the write of the pool table fails.
NextSaveFails ==
    \/ \E barcode \in {"1000000000001", "1000000000002", "1000000000003"},
          merchant_id \in Merchants, tx_time \in Clock :
              Redeem("t1", barcode, merchant_id, tx_time)
    \/ \E barcode \in {"1000000000001", "1000000000002", "1000000000003"},
          merchant_id \in Merchants, tx_time \in Clock, outcome \in SaveFailures :
              RedeemSaveFails("t2", barcode, merchant_id, tx_time, outcome)

SpecSaveFails == InitRedeem /\ [][NextSaveFails]_vars

\* the positions the mirror of the portal holds used and the pool table
\* does not
FlippedOnly(codes) ==
    UsedIn(registry.portal.household_voucher_state, codes)
        \ UsedIn(voucher_state_json, codes)

\* C20: a redeem that leaves a flip in the mirror which the pool table does
\* not hold has failed with an error and appended no ledger line; and no
\* redeem treats a position as used unless the pool table holds it used
\* when the call begins: a bundle is declined only on a code used in the
\* pool table, and a bundle whose codes are all redeemable by the pool
\* table is never rejected, whatever the mirror held.
C20_FailedSaveNotCommitted ==
    [][\A t \in Threads :
          redeem_req'[t] # redeem_req[t]
             => LET r     == redeem_req'[t]
                    codes == Bundle(r.barcode)
                IN  /\ (/\ registry' # registry
                        /\ registry'.portal.household_voucher_state
                               # voucher_state_json')
                           => /\ r.result = "Internal Server Error"
                              /\ transactions_csv' = transactions_csv
                    /\ r.result = "Declined"
                           => FirstDisqualified(voucher_state_json, codes)
                                  \in UsedIn(voucher_state_json, codes)
                    /\ (/\ voucher_state_json # Corrupt
                        /\ codes # << >>
                        /\ Disqualified(voucher_state_json, codes) = {})
                           => r.result \in {"Redemption Successful!",
                                            "Internal Server Error"}]_vars

\* the write failed for request t2 after the flip, and afterwards request t1
\* redeemed a bundle that holds a voucher of t2's bundle
C20_Witness ==
    /\ redeem_req["t2"].result = "Internal Server Error"
    /\ redeem_req["t1"].result = "Redemption Successful!"
    /\ \E i \in 1..Len(Bundle(redeem_req["t1"].barcode)),
          j \in 1..Len(Bundle(redeem_req["t2"].barcode)) :
              Bundle(redeem_req["t1"].barcode)[i] = Bundle(redeem_req["t2"].barcode)[j]

(***************************************************************************)
(* C21  Empty registration input is rejected without effect.               *)
(***************************************************************************)

\* C21: a register_household call whose input is empty after trimming
\* returns ("", "", False, "FIN is required."), and leaves the registry
\* object (the identity mapping and every pool), households.csv and
\* voucher_state.json as they were, so that no identifier is allocated.
C21_EmptyInputRejected ==
    [][\A t \in Threads :
          (register_req'[t] # register_req[t] /\ strip(register_req'[t].fin_raw) = << >>)
             => /\ register_req'[t].pc = "done"
                /\ register_req'[t].fin = << >>
                /\ register_req'[t].hid = << >>
                /\ register_req'[t].already_registered = FALSE
                /\ register_req'[t].error = "FIN is required."
                /\ UNCHANGED << registry, households_csv, voucher_state_json >>]_vars

\* blank input was rejected on a registry that holds households
C21_Witness ==
    \E t \in Threads :
        /\ register_req[t].pc = "done"
        /\ register_req[t].fin_raw = << " " >>
        /\ register_req[t].error = "FIN is required."
        /\ DOMAIN ServerMap # {}
        /\ households_csv # << >>

(***************************************************************************)
(* C22  Merchant history is a filter in insertion order.                   *)
(***************************************************************************)

\* the merchants whose sessions ask for their history: two that redeem and
\* one that never does
HistoryMerchants == Merchants \cup {"M003"}

\* a /history request of the session of merchant_id
History(merchant_id) ==
    /\ NoCallInFlight
    /\ history_req' = [route |-> "history", merchant_id |-> merchant_id,
                       transactions |-> history(transactions_csv,
                                                transactions_csv_exists, merchant_id)]
    /\ UNCHANGED << households_csv, voucher_state_json, transactions_csv,
                    transactions_csv_exists, registry, redeem_req, register_req,
                    merchant_csv, merchant_req, codec >>

\* a /download_csv request of the session of merchant_id
DownloadCsv(merchant_id) ==
    /\ NoCallInFlight
    /\ history_req' = [route |-> "download_csv", merchant_id |-> merchant_id,
                       transactions |-> download_csv(transactions_csv,
                                                     transactions_csv_exists,
                                                     merchant_id)]
    /\ UNCHANGED << households_csv, voucher_state_json, transactions_csv,
                    transactions_csv_exists, registry, redeem_req, register_req,
                    merchant_csv, merchant_req, codec >>

\* Redemptions by two merchants of three bundles that share no voucher, of
\* one, two and three codes, and history requests between them.
NextHistory ==
    \/ \E barcode \in {"1000000000002", "1000000000004", "1000000000014"},
          merchant_id \in Merchants, tx_time \in Clock :
              Redeem("t1", barcode, merchant_id, tx_time)
    \/ \E merchant_id \in HistoryMerchants : History(merchant_id)
    \/ \E merchant_id \in HistoryMerchants : DownloadCsv(merchant_id)

SpecHistory == InitRedeem /\ [][NextHistory]_vars

\* the numbers of the ledger lines of a merchant, and the j-th of them
LinesOf(rows, merchant_id) ==
    {i \in 1..Len(rows) : rows[i].Merchant_ID = merchant_id}

NthOf(S, j) == CHOOSE i \in S : Cardinality({x \in S : x <= i}) = j

\* C22: the lines a history or download request returns for a merchant are
\* exactly the ledger lines whose merchant id is that merchant's, oldest
\* first, and the request changes no ledger line.
C22_HistoryIsFilter ==
    [][history_req' # history_req
          => LET out   == history_req'.transactions
                 lines == LinesOf(transactions_csv, history_req'.merchant_id)
             IN  /\ Len(out) = Cardinality(lines)
                 /\ \A j \in 1..Len(out) : out[j] = transactions_csv[NthOf(lines, j)]
                 /\ UNCHANGED << transactions_csv, transactions_csv_exists >>]_vars

\* a history of two redemptions of one merchant, with a redemption of the
\* other merchant between them in the ledger
C22_Witness ==
    /\ history_req.route = "history"
    /\ \E i, j, k \in 1..Len(transactions_csv) :
           /\ i < j /\ j < k
           /\ transactions_csv[i].Merchant_ID = history_req.merchant_id
           /\ transactions_csv[j].Merchant_ID # history_req.merchant_id
           /\ transactions_csv[k].Merchant_ID = history_req.merchant_id
           /\ transactions_csv[i].Transaction_ID # transactions_csv[k].Transaction_ID
    /\ Len(history_req.transactions)
           = Cardinality(LinesOf(transactions_csv, history_req.merchant_id))

(***************************************************************************)
(* C23  Merchant registration keeps merchants distinct.                    *)
(***************************************************************************)

\* /register requests of Merchant_reg.py, one after another, from no
\* merchant.csv
NextMerchant == \E form \in MerchantForms : RegisterMerchant(form)

SpecMerchant == Init /\ [][NextMerchant]_vars

NameKey(merchant_name) == lower(strip(merchant_name))

\* the numbers of the rows that hold the name or the account number of a form
Matching(rows, form) ==
    {i \in 1..Len(rows) :
        \/ NameKey(rows[i].Merchant_Name) = NameKey(form.Merchant_Name)
        \/ strip(rows[i].Account_Number) = strip(form.Account_Number)}

\* nine decimal digits
NineDigits(s) == Len(s) = 9 /\ \A i \in 1..Len(s) : IsDigit(s[i])

\* no two rows share a name or an account number, and the identifiers are
\* M001, M002, ... in file order
MerchantsDistinct(rows) ==
    /\ \A i, j \in 1..Len(rows) :
           i # j => /\ NameKey(rows[i].Merchant_Name) # NameKey(rows[j].Merchant_Name)
                    /\ rows[i].Account_Number # rows[j].Account_Number
    /\ \A i \in 1..Len(rows) : rows[i].Merchant_ID = MerchantId(i)

\* C23: after register requests that start from an empty merchant table no
\* two rows share a name (trimmed, case-insensitive) or an account number
\* and the Merchant_IDs are M001, M002, ...; a request whose name or account
\* number matches a row returns that row's Merchant_ID and appends nothing;
\* a request with a bank outside the allowed set or an account number that
\* is not nine digits appends nothing.
C23_MerchantsDistinct ==
    [][merchant_req' # merchant_req
          => LET form == merchant_req'.form
             IN  /\ MerchantsDistinct(merchant_csv'.rows)
                 /\ Matching(merchant_csv.rows, form) # {}
                        => /\ \E i \in Matching(merchant_csv.rows, form) :
                                  merchant_req'.merchant_id
                                      = merchant_csv.rows[i].Merchant_ID
                           /\ merchant_csv'.rows = merchant_csv.rows
                 /\ (\/ strip(form.Bank_Name) \notin ALLOWED_BANKS
                     \/ ~NineDigits(strip(form.Account_Number)))
                        => merchant_csv'.rows = merchant_csv.rows]_vars

(***************************************************************************)
(* C24  Error precedence across the bundle.                                *)
(***************************************************************************)

\* the numbers of the codes of a bundle that are malformed or out of range
BadIn(json, codes) == MalformedIn(codes) \cup OutOfBounds(json, codes)

\* C24 as stated: a bundle that holds both a used voucher and a malformed
\* or out-of-range code fails with the format or index error, whatever the
\* order of its codes.
C24_FormatOrIndexErrorFirst ==
    [][LET codes == Bundle(LastRedeem'.barcode)
       IN  (/\ LastRedeem' # LastRedeem
            /\ UsedIn(voucher_state_json, codes) # {}
            /\ BadIn(voucher_state_json, codes) # {})
               => LastRedeem'.result \in {"Data format error",
                                          "Voucher index out of range"}]_vars

\* C24 amended: the codes are decoded, bounds checked and tested for use one
\* after the other in bundle order, and the first code that fails decides:
\* a bundle that holds both a used voucher and a malformed or out-of-range
\* code is rejected without any write, with the format or index error when
\* the malformed or out-of-range code comes before every used one, and as
\* already redeemed when a used voucher comes first.
C24_FirstFailingCodeDecides ==
    [][LET codes == Bundle(LastRedeem'.barcode)
           used  == UsedIn(voucher_state_json, codes)
           bad   == BadIn(voucher_state_json, codes)
           first == FirstDisqualified(voucher_state_json, codes)
       IN  (LastRedeem' # LastRedeem /\ used # {} /\ bad # {})
               => /\ first \in bad
                      => LastRedeem'.result = IF first \in MalformedIn(codes)
                                              THEN "Data format error"
                                              ELSE "Voucher index out of range"
                  /\ first \in used => LastRedeem'.result = "Declined"
                  /\ first \in bad \cup used
                  /\ UNCHANGED << voucher_state_json, transactions_csv,
                                  transactions_csv_exists >>]_vars

\* a bundle whose first voucher is used and which holds an out-of-range and
\* a malformed code after it has been declined as already redeemed
C24_Witness ==
    /\ LastRedeem.pc = "done"
    /\ LastRedeem.result = "Declined"
    /\ LET codes == Bundle(LastRedeem.barcode)
       IN  /\ 1 \in UsedIn(voucher_state_json, codes)
           /\ OutOfBounds(voucher_state_json, codes) # {}
           /\ MalformedIn(codes) # {}

(***************************************************************************)
(* C25  Transaction ids are gap-free in sequential use.                    *)
(***************************************************************************)

\* the transaction ids the ledger holds
LedgerIds(rows) == {rows[i].Transaction_ID : i \in 1..Len(rows)}

\* C25: over complete redeem calls from an empty ledger, a successful
\* redemption that follows k - 1 successful ones gets TX and k padded to
\* five digits, and its lines, which all carry that id, are appended; a
\* failed redemption leaves the ledger as it was: not created, not changed.
C25_GapFreeIds ==
    [][LastRedeem' # LastRedeem
          => LET k == Cardinality(LedgerIds(transactions_csv)) + 1
             IN  IF LastRedeem'.result = "Redemption Successful!"
                 THEN /\ LastRedeem'.tx_id = TransactionId(k)
                      /\ Len(transactions_csv') > Len(transactions_csv)
                      /\ SubSeq(transactions_csv', 1, Len(transactions_csv))
                             = transactions_csv
                      /\ \A i \in (Len(transactions_csv) + 1)..Len(transactions_csv') :
                             transactions_csv'[i].Transaction_ID = TransactionId(k)
                      /\ LedgerIds(transactions_csv') = {TransactionId(n) : n \in 1..k}
                 ELSE UNCHANGED << transactions_csv, transactions_csv_exists >>]_vars

\* the ledger holds three redemptions, one of them of several lines, the
\* last of them under TX00003, and the redeem after them failed
C25_Witness ==
    /\ LastRedeem.pc = "done"
    /\ LastRedeem.result \in Rejections
    /\ Len(transactions_csv) > 3
    /\ transactions_csv[Len(transactions_csv)].Transaction_ID = TransactionId(3)
    /\ LedgerIds(transactions_csv) = {TransactionId(1), TransactionId(2), TransactionId(3)}

(***************************************************************************)
(* C26  Used positions and ledger agree.                                   *)
(***************************************************************************)

\* the ledger holds a line whose voucher code decodes to the position
InLedger(rows, hid, key, i) ==
    \E n \in 1..Len(rows) :
        /\ Decodes(rows[n].Voucher_Code)
        /\ Position(rows[n].Voucher_Code) = << hid, key, i >>

\* C26: between complete redeem calls, from all-unused pools and an empty
\* ledger, a pool position is 1 in voucher_state.json if and only if the
\* ledger holds a line whose voucher code decodes to that position.
C26_UsedIffInLedger ==
    \A hid \in DOMAIN voucher_state_json :
        \A key \in DOMAIN voucher_state_json[hid] :
            \A i \in 1..Len(voucher_state_json[hid][key]) :
                voucher_state_json[hid][key][i] = 1
                    <=> InLedger(transactions_csv, hid, key, i)

\* three redemptions are in the ledger, one of them of a bundle of several
\* vouchers, and the last redeem was declined
C26_Witness ==
    /\ LastRedeem.pc = "done"
    /\ LastRedeem.result = "Declined"
    /\ Cardinality(LedgerIds(transactions_csv)) = 3
    /\ \E i, j \in 1..Len(transactions_csv) :
           /\ transactions_csv[i].Transaction_ID = transactions_csv[j].Transaction_ID
           /\ Position(transactions_csv[i].Voucher_Code)
                  # Position(transactions_csv[j].Voucher_Code)

(***************************************************************************)
(* C27  Pool shape is fixed.                                               *)
(***************************************************************************)

\* every household of a pool mapping has the configured denominations, each
\* list its configured length, every entry 0 or 1
WellShaped(state) ==
    \A hid \in DOMAIN state :
        /\ DOMAIN state[hid] = {Str(denom) : denom \in DOMAIN voucher_counts}
        /\ \A key \in DOMAIN state[hid] :
               /\ Len(state[hid][key]) = voucher_counts[DenomOfKey(key)]
               /\ \A i \in 1..Len(state[hid][key]) : state[hid][key][i] \in {0, 1}

Appended(rows, old) == SubSeq(rows, old + 1, Len(rows))

\* C28: the n lines a successful redemption appends are the codes of its
\* bundle in bundle order; the last line carries the remark "Final
\* denomination used" and the j-th earlier line (1 <= j < n) the remark j,
\* so that a single-voucher redemption has only the final remark.
C28_LedgerRemarks ==
    [][(LastRedeem' # LastRedeem /\ LastRedeem'.result = "Redemption Successful!")
          => LET lines == Appended(transactions_csv', Len(transactions_csv))
                 codes == Bundle(LastRedeem'.barcode)
                 n     == Len(lines)
             IN  /\ n >= 1
                 /\ n = Len(codes)
                 /\ \A j \in 1..n :
                        /\ lines[j].Voucher_Code = codes[j]
                        /\ lines[j].Remarks = IF j = n
                                              THEN << "Final denomination used" >>
                                              ELSE Str(j)]_vars

\* the last redeem appended three lines, remarked 1, 2 and final, after a
\* single-voucher redemption whose one line carries the final remark
C28_Witness ==
    /\ LastRedeem.pc = "done"
    /\ LastRedeem.result = "Redemption Successful!"
    /\ Len(Bundle(LastRedeem.barcode)) = 3
    /\ Len(transactions_csv) = 4
    /\ transactions_csv[1].Remarks = << "Final denomination used" >>
    /\ transactions_csv[2].Remarks = Str(1)
    /\ transactions_csv[3].Remarks = Str(2)
    /\ transactions_csv[4].Remarks = << "Final denomination used" >>

====
